---------------------------- MODULE Spec2Model ----------------------------
(***************************************************************************)
(* The HTTP middleware decorator chain of                                  *)
(*   src/Structural Patterns/Decorator Pattern/Middleware/main.py          *)
(* as a state machine.  One step is one complete, synchronous call of      *)
(* handle() on a unit of the chain; the unit-local state (cache table,     *)
(* rate-limit log, metrics, data store) lives across calls.                *)
(*                                                                         *)
(* Strings that the code inspects are sequences of lexical tokens:         *)
(*   - an Authorization value is a sequence of chunks ("Bearer ", the      *)
(*     halves of the two valid tokens); the chunks are uniquely            *)
(*     decodable and "Bearer " occurs only as its own chunk, so            *)
(*     str.replace and string equality act chunk-wise;                     *)
(*   - an Accept-Encoding value is a sequence of characters.               *)
(* Time is an integer number of seconds read from one clock.               *)
(***************************************************************************)
EXTENDS Integers, Sequences, FiniteSets, TLC

VARIABLES
    clock,        \* the wall clock read by datetime.now() / time.time()
    cache,        \* CachingMiddleware.cache: key -> [rid, expiry]
    request_log,  \* RateLimitingMiddleware.request_log: user -> <<[ts, count]>>
    users,        \* APIHandler.data_store["users"]
    metrics,      \* MetricsMiddleware.metrics
    heap,         \* the live HTTPResponse objects: ref -> object
    req,          \* the request of the last call, as the call left it
    ret,          \* the ref of the response the last call returned, or NoRef
    exc,          \* the exception the last call raised, "" if none
    exc_status,   \* the status_code of that exception if it has one, else 0
    trace,        \* the units the last call entered and left, in order
    stub,         \* the response a stand-in terminal handler answers with
    ncalls,       \* calls made so far
    stored_at,    \* observation: key -> instant its entry was put in the table
    memo,         \* observation: request class -> outcome of its last cached GET
    seen,         \* observation: user -> [first, n] of its calls on the limiter
    pair,         \* two requests whose cache keys are compared, and the keys
    given,        \* observation: the request of the last call, as it was passed
    config,       \* constructor arguments and the units constructed from them
    probe,        \* observation: the headers given to a request, the last lookup
    threads,      \* concurrent handle calls: thread -> its position and locals
    proxy,        \* the stock CachingProxy: its clock, its table, its calls
    facade,       \* the payment facade: its database, its last call
    db            \* db_singleton: its clients, the engines created for it

\* the state of the middleware chain and what is observed of its calls
chain == <<clock, cache, request_log, users, metrics, heap, req, ret, exc,
           exc_status, trace, stub, ncalls, stored_at, memo, seen, pair, given>>

\* the state of what stands beside the chain
others == <<config, probe, threads, proxy, facade, db>>

vars == <<chain, others>>

---------------------------------------------------------------------------
(* Bounds of the model and configuration of the units.                     *)

MaxCalls == 3
MaxTime == 3
MaxDelay == 1
\* CachingMiddleware(ttl_seconds=...), scaled from the demonstration's 60
TTL == 2
\* RateLimitingMiddleware(max_requests=..., window_seconds=...), scaled
MaxRequests == 2
Window == 2
\* longest Authorization value, in chunks
MaxAuthLen == 3
\* longest Accept-Encoding value, in characters
MaxEncLen == 4
\* body sizes tried on each side of the compression threshold
MaxOver == 2
\* handle calls running concurrently
NumThreads == 3
\* constructor arguments tried: -MaxArg..MaxArg
MaxArg == 1
\* "body is substantial": len(response.body) > 100
MinCompressSize == 100

None == <<"<None>">>
EmptyMap == [x \in {} |-> None]

---------------------------------------------------------------------------
(* Strings.                                                                *)

\* str.lower() on one character
LowerChar(c) ==
    CASE c = "G" -> "g"
      [] c = "Z" -> "z"
      [] c = "I" -> "i"
      [] c = "P" -> "p"
      [] OTHER -> c

\* str.lower()
Lower(s) == [i \in 1..Len(s) |-> LowerChar(s[i])]

\* sub in s
Contains(s, sub) ==
    \E i \in 0..(Len(s) - Len(sub)) :
        \A j \in 1..Len(sub) : s[i + j] = sub[j]

\* s.replace(chunk, "") for a one-chunk pattern
Remove(s, chunk) == SelectSeq(s, LAMBDA c : c # chunk)

\* name.lower() for a header name
LowerName(n) ==
    CASE n = "Authorization" -> "authorization"
      [] n = "AUTHORIZATION" -> "authorization"
      [] n = "Accept-Encoding" -> "accept-encoding"
      [] n = "Origin" -> "origin"
      [] OTHER -> n

Gzip == <<"g", "z", "i", "p">>
Star == <<"*">>
Bearer == "Bearer "
SecretToken == <<"secret-", "token-123">>
AdminToken == <<"admin-", "token-456">>

---------------------------------------------------------------------------
(* HTTPRequest and HTTPResponse.                                           *)

\* HTTPRequest.get_header
GetHeader(rq, name, default) ==
    IF LowerName(name) \in DOMAIN rq.headers
    THEN rq.headers[LowerName(name)] ELSE default

\* HTTPRequest.set_header
RequestSetHeader(rq, name, value) ==
    [rq EXCEPT !.headers =
        [k \in DOMAIN rq.headers \cup {LowerName(name)} |->
            IF k = LowerName(name) THEN value ELSE rq.headers[k]]]

\* HTTPResponse(status_code=..., body=...)
NewResponse(status, body) ==
    [status_code |-> status, body |-> body, headers |-> EmptyMap,
     execution_time_ms |-> -1]

\* HTTPResponse.set_header
SetHeader(r, name, value) ==
    [r EXCEPT !.headers =
        [k \in DOMAIN r.headers \cup {LowerName(name)} |->
            IF k = LowerName(name) THEN value ELSE r.headers[k]]]

\* a success test without the upper end of the range, under which a cache
\* would keep 4xx and 5xx responses: C4_FailureIsolation does not hold of it
IsSuccessNoUpperEnd(r) == 200 <= r.status_code

\* HTTPResponse.is_success
IsSuccess(r) == 200 <= r.status_code /\ r.status_code < 300

\* json.dumps of the small error objects
ErrorBody(msg, n) == [doc |-> <<"error", msg>>, len |-> n]


---------------------------------------------------------------------------
(* The state a call runs on.  A unit's handle() is an operator from the    *)
(* state before it is entered to the state when it is left; s.req is the   *)
(* request object (mutated in place), s.ret the response object returned,  *)
(* s.exc the exception in flight.                                          *)

\* a unit is entered, left by return, or left by an exception
Ev(s, unit, ev) ==
    [s EXCEPT !.trace = Append(@, [unit |-> unit, ev |-> ev, at |-> s.clock])]

\* An HTTPResponse object is named by what refers to it: the cache key of
\* the entry that holds it, or NewRef while only the call in progress (and
\* then its caller) holds it.  A call creates at most one response.
NewRef == <<"new">>
NoRef == <<>>

\* a new HTTPResponse object is created and becomes the value returned
Alloc(s, r) ==
    [s EXCEPT !.heap = [k \in DOMAIN s.heap \cup {NewRef} |->
                          IF k = NewRef THEN r ELSE s.heap[k]],
              !.ret = NewRef]

\* the object s.ret is mutated in place
Mutate(s, r) == [s EXCEPT !.heap[s.ret] = r]

\* raise kind(...)
Raise(s, kind, status) ==
    [s EXCEPT !.ret = NoRef, !.exc = kind, !.exc_status = status]

---------------------------------------------------------------------------
(* APIHandler: the terminal handler.                                       *)

\* str.startswith on the paths of the model
PathStartsWith(p, prefix) ==
    CASE prefix = "/users" -> p \in {"/users", "/users/1"}
      [] prefix = "/products" -> p \in {"/products"}
      [] OTHER -> FALSE

\* len(json.dumps(user))
UserJsonLen(u) ==
    CASE u.name = "Alice" -> 56
      [] u.name = "Bob" -> 52
      [] u.name = "Carol" -> 26
      [] OTHER -> 9

\* json.dumps({"users": users})
UsersBody(us) ==
    LET RECURSIVE Sum(_)
        Sum(i) == IF i = 0 THEN 0 ELSE UserJsonLen(us[i]) + Sum(i - 1)
    IN [doc |-> <<"users">> \o [i \in 1..Len(us) |-> us[i].name],
        len |-> 13 + Sum(Len(us)) + (IF Len(us) > 1 THEN 2 * (Len(us) - 1) ELSE 0)]

\* json.dumps({"user": new_user})
UserBody(u) ==
    [doc |-> <<"user", u.name, ToString(u.id)>>, len |-> 10 + UserJsonLen(u)]

\* json.dumps({"products": products})
ProductsBody == [doc |-> <<"products", "Laptop", "Mouse">>, len |-> 104]

InitialUsers == <<[id |-> 1, name |-> "Alice"], [id |-> 2, name |-> "Bob"]>>

\* json.loads(request.body) if request.body else {}
JsonLoads(body) ==
    CASE body = None -> [ok |-> TRUE, kind |-> "object", name |-> ""]
      [] body = <<>> -> [ok |-> TRUE, kind |-> "object", name |-> ""]
      [] body = <<"{\"name\": \"Carol\"}">> ->
            [ok |-> TRUE, kind |-> "object", name |-> "Carol"]
      [] body = <<"[1]">> -> [ok |-> TRUE, kind |-> "array", name |-> ""]
      [] OTHER -> [ok |-> FALSE, kind |-> "", name |-> ""]

\* APIHandler._handle_users
HandleUsers(s) ==
    IF s.req.method = "GET"
    THEN Alloc(s, NewResponse(200, UsersBody(s.users)))
    ELSE IF s.req.method = "POST"
    THEN LET parsed == JsonLoads(s.req.body)
             new_user == [id |-> Len(s.users) + 1, name |-> parsed.name]
         IN IF ~parsed.ok THEN Raise(s, "JSONDecodeError", 0)
            ELSE IF parsed.kind # "object" THEN Raise(s, "TypeError", 0)
            ELSE Alloc([s EXCEPT !.users = Append(@, new_user)],
                       NewResponse(201, UserBody(new_user)))
    ELSE Alloc(s, NewResponse(405, ErrorBody("Method not allowed", 31)))

\* APIHandler._handle_products
HandleProducts(s) ==
    IF s.req.method = "GET"
    THEN Alloc(s, NewResponse(200, ProductsBody))
    ELSE Alloc(s, NewResponse(405, ErrorBody("Method not allowed", 31)))

\* APIHandler.handle; the work of the handler takes s.delay seconds
APIHandle(ch, i, s) ==
    LET s0 == Ev([s EXCEPT !.clock = @ + s.delay], "API", "enter")
        s1 == IF PathStartsWith(s0.req.path, "/users") THEN HandleUsers(s0)
              ELSE IF PathStartsWith(s0.req.path, "/products") THEN HandleProducts(s0)
              ELSE Alloc(s0, NewResponse(404, ErrorBody("Endpoint not found", 31)))
    IN Ev(s1, "API", IF s1.exc = "" THEN "exit" ELSE "raise")

\* A stand-in for any other HTTPHandler: answers with the configured
\* response, or raises HTTPException(status_code, message)
StubHandle(ch, i, s) ==
    LET s0 == Ev([s EXCEPT !.clock = @ + s.delay], "Stub", "enter")
        s1 == IF s0.stub.raises THEN Raise(s0, "HTTPException", s0.stub.status)
              ELSE Alloc(s0, NewResponse(s0.stub.status, s0.stub.body))
    IN Ev(s1, "Stub", IF s1.exc = "" THEN "exit" ELSE "raise")

RECURSIVE Handle(_, _, _)


---------------------------------------------------------------------------
(* CompressionMiddleware.                                                  *)

\* str(n) as a header value
NumStr(n) == <<ToString(n)>>

\* the test without .lower(), under which "GZIP" is not recognised:
\* C10_CompressionMarking does not hold of it
SupportsGzipExactCase(accept_encoding) == Contains(accept_encoding, Gzip)

\* supports_gzip = "gzip" in accept_encoding.lower()
SupportsGzip(accept_encoding) == Contains(Lower(accept_encoding), Gzip)

\* CompressionMiddleware.handle
CompressionHandle(ch, i, s) ==
    LET s0 == Ev(s, "Compression", "enter")
        accept_encoding == GetHeader(s0.req, "accept-encoding", <<>>)
        supports_gzip == SupportsGzip(accept_encoding)
        s1 == Handle(ch, i + 1, s0)
        response == s1.heap[s1.ret]
        original_size == response.body.len
        compressed_size == (original_size * 3) \div 10
    IN IF s1.exc # "" THEN Ev(s1, "Compression", "raise")
       ELSE IF supports_gzip /\ original_size > MinCompressSize
       THEN Ev(Mutate(s1,
                 SetHeader(SetHeader(SetHeader(response,
                     "content-encoding", Gzip),
                     "x-original-size", NumStr(original_size)),
                     "x-compressed-size", NumStr(compressed_size))),
               "Compression", "exit")
       ELSE Ev(s1, "Compression", "exit")

---------------------------------------------------------------------------
(* CachingMiddleware.                                                      *)

\* str(request.query_params): the dict printed in insertion order
DictRepr(qp) ==
    LET RECURSIVE Items(_)
        Items(k) ==
            IF k = 0 THEN <<>>
            ELSE Items(k - 1) \o (IF k > 1 THEN <<", ">> ELSE <<>>)
                 \o <<"'", qp[k][1], "': '", qp[k][2], "'">>
    IN <<"{">> \o Items(Len(qp)) \o <<"}">>

\* hashlib.md5(...).hexdigest(): a fixed function of the text, taken to
\* be free of collisions on the texts of the model
Md5(text) == <<"md5">> \o text

\* CachingMiddleware._generate_cache_key
GenerateCacheKey(rq) ==
    Md5(<<rq.method, ":", rq.path, ":">> \o DictRepr(rq.query_params))

\* self.cache[cache_key] = (response, expiry): the table now refers to the
\* object rid, which from here on is named by the key
CacheStore(s, key, rid, expiry) ==
    [s EXCEPT
        !.cache = [k \in DOMAIN s.cache \cup {key} |->
                     IF k = key THEN [rid |-> key, expiry |-> expiry]
                     ELSE s.cache[k]],
        !.stored_at = [k \in DOMAIN s.cache \cup {key} |->
                     IF k = key THEN s.clock ELSE s.stored_at[k]],
        !.heap = [k \in (DOMAIN s.heap \ {rid}) \cup {key} |->
                     IF k = key THEN s.heap[rid] ELSE s.heap[k]],
        !.ret = IF s.ret = rid THEN key ELSE s.ret]

\* a cache that leaves an expired entry in its table: C20_LazyEviction does
\* not hold of it
CacheKeepExpired(s, key) == s

\* del self.cache[cache_key]
CacheDelete(s, key) ==
    [s EXCEPT
        !.cache = [k \in DOMAIN s.cache \ {key} |-> s.cache[k]],
        !.stored_at = [k \in DOMAIN s.cache \ {key} |-> s.stored_at[k]],
        !.heap = [k \in DOMAIN s.heap \ {key} |-> s.heap[k]]]

\* a cache that would look every method up: C3_NonCacheableBypass does not
\* hold of it
CacheableWhateverMethod(rq) == TRUE

\* only GET requests are cached: the test request.method != "GET", negated
Cacheable(rq) == rq.method = "GET"

\* CachingMiddleware.handle
CachingHandle(ch, i, s) ==
    LET s0 == Ev(s, "Caching", "enter")
        cache_key == GenerateCacheKey(s0.req)
        now == s0.clock
        present == cache_key \in DOMAIN s0.cache
        fresh == present /\ now < s0.cache[cache_key].expiry
        hit == s0.cache[cache_key].rid
        s1 == IF present THEN CacheDelete(s0, cache_key) ELSE s0
        s2 == Handle(ch, i + 1, s1)
        response == s2.heap[s2.ret]
        expiry == now + TTL
    IN IF ~Cacheable(s0.req)
       THEN LET b == Handle(ch, i + 1, s0)
            IN Ev(b, "Caching", IF b.exc = "" THEN "exit" ELSE "raise")
       ELSE IF fresh
       THEN Ev(Mutate([s0 EXCEPT !.ret = hit],
                      SetHeader(s0.heap[hit], "x-cache", <<"HIT">>)),
               "Caching", "exit")
       ELSE IF s2.exc # "" THEN Ev(s2, "Caching", "raise")
       ELSE IF IsSuccess(response)
       THEN Ev(Mutate(CacheStore(s2, cache_key, s2.ret, expiry),
                      SetHeader(response, "x-cache", <<"MISS">>)),
               "Caching", "exit")
       ELSE Ev(s2, "Caching", "exit")

---------------------------------------------------------------------------
(* RateLimitingMiddleware.                                                 *)

\* request.context.get("user_id", "anonymous")
UserIdOf(rq) ==
    IF "user_id" \in DOMAIN rq.context THEN rq.context["user_id"] ELSE "anonymous"

\* self.request_log[user_id] of the defaultdict(list)
LogOf(log, u) == IF u \in DOMAIN log THEN log[u] ELSE <<>>

\* sum(count for _, count in entries)
SumCounts(entries) ==
    LET RECURSIVE Sum(_)
        Sum(k) == IF k = 0 THEN 0 ELSE entries[k].count + Sum(k - 1)
    IN Sum(Len(entries))

\* json.dumps({"error": "Rate limit exceeded", "retry_after": window})
RateLimitBody ==
    [doc |-> <<"error", "Rate limit exceeded", "retry_after", ToString(Window)>>,
     len |-> 50 + (IF Window < 10 THEN 1 ELSE 2)]

\* the test with > for >=, which lets request max_requests + 1 through:
\* C7_RateLimitThreshold does not hold of it
OverLimitStrict(recent_requests) == recent_requests > MaxRequests

\* if recent_requests >= self.max_requests
OverLimit(recent_requests) == recent_requests >= MaxRequests

\* a limiter that enters the requests it rejects in the log as well:
\* C24_Recovery does not hold of it
RejectedCounted(kept, now) == Append(kept, [ts |-> now, count |-> 1])

\* the log of an identity after a rejection: the 429 is returned before
\* the append is reached
Rejected(kept, now) == kept

\* a prune that keeps the entry made exactly window_seconds ago:
\* C23_CallerWindow does not hold of it
RecentInclusive(e, cutoff) == e.ts >= cutoff

\* if ts > cutoff
Recent(e, cutoff) == e.ts > cutoff

\* RateLimitingMiddleware.handle
RateLimitingHandle(ch, i, s) ==
    LET s0 == Ev(s, "RateLimiting", "enter")
        user_id == UserIdOf(s0.req)
        now == s0.clock
        cutoff == now - Window
        kept == SelectSeq(LogOf(s0.request_log, user_id),
                          LAMBDA e : Recent(e, cutoff))
        recent_requests == SumCounts(kept)
        WithLog(entries) ==
            [s0 EXCEPT !.request_log =
                [u \in DOMAIN s0.request_log \cup {user_id} |->
                    IF u = user_id THEN entries ELSE s0.request_log[u]]]
        s1 == Handle(ch, i + 1, WithLog(Append(kept, [ts |-> now, count |-> 1])))
    IN IF OverLimit(recent_requests)
       THEN Ev(Alloc(WithLog(Rejected(kept, now)), NewResponse(429, RateLimitBody)),
               "RateLimiting", "exit")
       ELSE Ev(s1, "RateLimiting", IF s1.exc = "" THEN "exit" ELSE "raise")


---------------------------------------------------------------------------
(* AuthenticationMiddleware.                                               *)

\* the valid_tokens argument of the demonstration chain
ValidTokensArg == {SecretToken, AdminToken}

\* self.valid_tokens = valid_tokens or {"secret-token-123", "admin-token-456"}
ValidTokensFor(arg) == IF arg = {} THEN {SecretToken, AdminToken} ELSE arg

\* self.valid_tokens of the demonstration chain
ValidTokens == ValidTokensFor(ValidTokensArg)

\* an authentication unit that would reject only after having delegated:
\* C5_OrderSensitivity does not hold of it
AuthenticationRejectsAfterwards(ch, i, s) ==
    LET s0 == Ev(s, "Authentication", "enter")
        auth_header == GetHeader(s0.req, "authorization", None)
        s1 == Handle(ch, i + 1, s0)
    IN IF s1.exc # "" THEN Ev(s1, "Authentication", "raise")
       ELSE IF auth_header = None \/ Remove(auth_header, Bearer) \notin ValidTokens
       THEN Ev(Alloc(s1, NewResponse(401, ErrorBody("Authentication required", 36))),
               "Authentication", "exit")
       ELSE Ev(s1, "Authentication", "exit")

\* AuthenticationMiddleware.handle
AuthenticationHandle(ch, i, s) ==
    LET s0 == Ev(s, "Authentication", "enter")
        auth_header == GetHeader(s0.req, "authorization", None)
        token == Remove(auth_header, Bearer)
        user_id == IF token = SecretToken THEN "user_123" ELSE "admin_456"
        is_admin == token # <<>> /\ token[1] = "admin-"
        context == [k \in DOMAIN s0.req.context \cup {"user_id", "is_admin"} |->
                      IF k = "user_id" THEN user_id
                      ELSE IF k = "is_admin" THEN (IF is_admin THEN "True" ELSE "False")
                      ELSE s0.req.context[k]]
        s1 == Handle(ch, i + 1, [s0 EXCEPT !.req.context = context])
    IN IF auth_header = None \/ auth_header = <<>>
       THEN Ev(Alloc(s0, NewResponse(401, ErrorBody("Authentication required", 36))),
               "Authentication", "exit")
       ELSE IF token \notin s0.valid_tokens
       THEN Ev(Alloc(s0, NewResponse(401, ErrorBody("Invalid authentication token", 41))),
               "Authentication", "exit")
       ELSE Ev(s1, "Authentication", IF s1.exc = "" THEN "exit" ELSE "raise")

---------------------------------------------------------------------------
(* CORSMiddleware.                                                         *)

\* the allowed_origins argument of the demonstration chain
AllowedOriginsArg == {<<"https://example.com">>, Star}

\* self.allowed_origins = allowed_origins or ["*"]
AllowedOriginsFor(arg) == IF arg = {} THEN {Star} ELSE arg

\* self.allowed_origins of the demonstration chain
AllowedOrigins == AllowedOriginsFor(AllowedOriginsArg)

\* CORSMiddleware.handle
CORSHandle(ch, i, s) ==
    LET s0 == Ev(s, "CORS", "enter")
        preflight == s0.req.method = "GET" /\ s0.req.path = "OPTIONS"
        s1 == IF preflight
              THEN Alloc(s0, NewResponse(204, [doc |-> <<>>, len |-> 0]))
              ELSE Handle(ch, i + 1, s0)
        response == s1.heap[s1.ret]
        origin == GetHeader(s1.req, "origin", Star)
    IN IF s1.exc # "" THEN Ev(s1, "CORS", "raise")
       ELSE IF origin \in s0.allowed_origins \/ Star \in s0.allowed_origins
       THEN Ev(Mutate(s1,
                 SetHeader(SetHeader(SetHeader(SetHeader(response,
                     "access-control-allow-origin", origin),
                     "access-control-allow-methods", <<"GET, POST, PUT, DELETE">>),
                     "access-control-allow-headers", <<"Content-Type, Authorization">>),
                     "access-control-max-age", <<"3600">>)),
               "CORS", "exit")
       ELSE Ev(s1, "CORS", "exit")

---------------------------------------------------------------------------
(* LoggingMiddleware.                                                      *)

\* a logging unit that would answer an HTTPException with a response of
\* its status: C11_ExceptionsPropagate does not hold of it
LoggingAnswersException(ch, i, s) ==
    LET s0 == Ev(s, "Logging", "enter")
        s1 == Handle(ch, i + 1, s0)
    IN IF s1.exc = "HTTPException"
       THEN Ev(Alloc([s1 EXCEPT !.exc = "", !.exc_status = 0],
                     NewResponse(s1.exc_status, ErrorBody("error", 0))),
               "Logging", "exit")
       ELSE Ev(s1, "Logging", IF s1.exc = "" THEN "exit" ELSE "raise")

\* LoggingMiddleware.handle
LoggingHandle(ch, i, s) ==
    LET s0 == Ev(s, "Logging", "enter")
        start_time == s0.clock
        s1 == Handle(ch, i + 1, s0)
        elapsed_ms == (s1.clock - start_time) * 1000
    IN IF s1.exc # "" THEN Ev(s1, "Logging", "raise")
       ELSE Ev(Mutate(s1, [s1.heap[s1.ret] EXCEPT !.execution_time_ms = elapsed_ms]),
               "Logging", "exit")

---------------------------------------------------------------------------
(* MetricsMiddleware.                                                      *)

\* self.metrics as __init__ leaves it
InitialMetrics ==
    [total_requests |-> 0, successful_requests |-> 0, failed_requests |-> 0,
     total_latency_ms |-> 0,
     status_codes |-> [x \in {} |-> 0],
     endpoint_stats |-> [x \in {} |-> [count |-> 0, latency_ms |-> 0]]]

\* metrics that leave the status code of a call uncounted:
\* C25_MetricsConsistency does not hold of them
BumpNothing(d, key, n) == d

\* d[key] += n on a defaultdict(int)
Bump(d, key, n) ==
    [k \in DOMAIN d \cup {key} |->
        (IF k \in DOMAIN d THEN d[k] ELSE 0) + (IF k = key THEN n ELSE 0)]

\* MetricsMiddleware.handle; endpoint_stats keeps the count and the sum of
\* the latencies, of which avg_latency_ms is the quotient
MetricsHandle(ch, i, s) ==
    LET s0 == Ev(s, "Metrics", "enter")
        start_time == s0.clock
        s1 == Handle(ch, i + 1, s0)
        latency_ms == (s1.clock - start_time) * 1000
        m == s1.metrics
        response == s1.heap[s1.ret]
        endpoint == <<s1.req.method, s1.req.path>>
        old == IF endpoint \in DOMAIN m.endpoint_stats THEN m.endpoint_stats[endpoint]
               ELSE [count |-> 0, latency_ms |-> 0]
        recorded ==
            [total_requests |-> m.total_requests + 1,
             successful_requests |->
                 m.successful_requests + (IF IsSuccess(response) THEN 1 ELSE 0),
             failed_requests |->
                 m.failed_requests + (IF IsSuccess(response) THEN 0 ELSE 1),
             total_latency_ms |-> m.total_latency_ms + latency_ms,
             status_codes |-> Bump(m.status_codes, response.status_code, 1),
             endpoint_stats |->
                 [e \in DOMAIN m.endpoint_stats \cup {endpoint} |->
                     IF e = endpoint
                     THEN [count |-> old.count + 1,
                           latency_ms |-> old.latency_ms + latency_ms]
                     ELSE m.endpoint_stats[e]]]
        failed ==
            [m EXCEPT !.total_requests = @ + 1,
                      !.failed_requests = @ + 1,
                      !.status_codes = Bump(@, s1.exc_status, 1),
                      !.total_latency_ms = @ + latency_ms]
    IN IF s1.exc = "HTTPException"
       THEN Ev([s1 EXCEPT !.metrics = failed], "Metrics", "raise")
       ELSE IF s1.exc # "" THEN Ev(s1, "Metrics", "raise")
       ELSE Ev([s1 EXCEPT !.metrics = recorded], "Metrics", "exit")

---------------------------------------------------------------------------
(* The chain: unit i of ch wraps unit i + 1 (self._handler).               *)

\* self._handler.handle(request) by dynamic dispatch
Handle(ch, i, s) ==
    CASE ch[i] = "Metrics" -> MetricsHandle(ch, i, s)
      [] ch[i] = "Logging" -> LoggingHandle(ch, i, s)
      [] ch[i] = "CORS" -> CORSHandle(ch, i, s)
      [] ch[i] = "Authentication" -> AuthenticationHandle(ch, i, s)
      [] ch[i] = "RateLimiting" -> RateLimitingHandle(ch, i, s)
      [] ch[i] = "Caching" -> CachingHandle(ch, i, s)
      [] ch[i] = "Compression" -> CompressionHandle(ch, i, s)
      [] ch[i] = "API" -> APIHandle(ch, i, s)
      [] ch[i] = "Stub" -> StubHandle(ch, i, s)

\* full_handler of demonstrate_decorator_pattern
FullChain ==
    <<"Metrics", "Logging", "CORS", "Authentication", "RateLimiting",
      "Caching", "Compression", "API">>


\* the units from unit name inward: the object held by the unit before it
Inward(ch, name) ==
    LET first == CHOOSE i \in 1..Len(ch) : ch[i] = name
    IN SubSeq(ch, first, Len(ch))

---------------------------------------------------------------------------
(* Requests.                                                               *)

\* a dict built from the entries that are given
Dict(names, value) ==
    [n \in {x \in names : value[x] # None} |-> value[n]]

\* HTTPRequest(method=..., path=..., headers=..., body=..., query_params=...,
\*             context=..., request_id=...)
Request(method, path, headers, body, query_params, context, request_id) ==
    [method |-> method, path |-> path, headers |-> headers, body |-> body,
     query_params |-> query_params, context |-> context,
     request_id |-> request_id]

\* headers={"authorization": ..., "accept-encoding": ..., "origin": ...}
Headers(auth, enc, origin) ==
    Dict({"authorization", "accept-encoding", "origin"},
         [n \in {"authorization", "accept-encoding", "origin"} |->
             CASE n = "authorization" -> auth
               [] n = "accept-encoding" -> enc
               [] OTHER -> origin])

NoRequest == Request("", "", EmptyMap, None, <<>>, EmptyMap, "")

\* query_params as the mapping it denotes
QueryMap(qp) == {qp[k] : k \in 1..Len(qp)}

\* the request class of a cached read: method, path, the mapping
ClassOf(rq) == <<rq.method, rq.path, QueryMap(rq.query_params)>>

BadJson == <<"{name">>
CarolJson == <<"{\"name\": \"Carol\"}">>
QueryAB == << <<"a", "1">>, <<"b", "2">> >>
QueryBA == << <<"b", "2">>, <<"a", "1">> >>

---------------------------------------------------------------------------
(* One call of handle() on the outermost unit of ch.                       *)

\* how often a unit was entered during the last call
Entered(tr, unit) ==
    Cardinality({k \in 1..Len(tr) : tr[k].unit = unit /\ tr[k].ev = "enter"})

\* the clock a unit read when it was entered
EnteredAt(tr, unit) ==
    tr[CHOOSE k \in 1..Len(tr) : tr[k].unit = unit /\ tr[k].ev = "enter"].at

\* what the caller of the CachingMiddleware has seen of the last GET of
\* each request class
Remember(s) ==
    LET c == ClassOf(s.req)
        key == GenerateCacheKey(s.req)
        held == key \in DOMAIN s.cache
        entry == [status |-> s.heap[s.ret].status_code,
                  body |-> s.heap[s.ret].body,
                  key |-> key,
                  held |-> held,
                  expiry |-> IF held THEN s.cache[key].expiry ELSE 0,
                  delegated |-> Entered(s.trace, "Compression"),
                  evicted |->
                      /\ key \in DOMAIN cache
                      /\ ~(EnteredAt(s.trace, "Caching") < cache[key].expiry),
                  after_failure |->
                      /\ c \in DOMAIN memo
                      /\ memo[c].delegated = 1
                      /\ ~(memo[c].status \in 200..299)]
    IN IF Entered(s.trace, "Caching") = 1 /\ s.req.method = "GET" /\ s.exc = ""
          /\ s.trace[1].unit = "Caching"
       THEN [k \in DOMAIN memo \cup {c} |-> IF k = c THEN entry ELSE memo[k]]
       ELSE memo

\* what the caller of the RateLimitingMiddleware has seen of each
\* identity: when it first called, how often, since when it has been
\* answered 429 without a break (-1: it is not), and whether the last call
\* was the first to be let through after such answers
Count(s) ==
    LET u == UserIdOf(s.req)
        now == EnteredAt(s.trace, "RateLimiting")
        old == IF u \in DOMAIN seen THEN seen[u]
               ELSE [first |-> now, n |-> 0, blocked_since |-> -1,
                     recovered |-> FALSE]
        rejected == Len(s.trace) = 2
        new == [first |-> old.first,
                n |-> old.n + 1,
                blocked_since |-> IF ~rejected THEN -1
                                  ELSE IF old.blocked_since = -1 THEN now
                                  ELSE old.blocked_since,
                recovered |-> ~rejected /\ old.blocked_since # -1]
    IN IF Entered(s.trace, "RateLimiting") = 1 /\ s.trace[1].unit = "RateLimiting"
       THEN [k \in DOMAIN seen \cup {u} |-> IF k = u THEN new ELSE seen[k]]
       ELSE seen

\* the valid_tokens argument the AuthenticationMiddleware was constructed
\* with: that of the demonstration chain unless another was given
ConfiguredTokens ==
    IF "valid_tokens" \in DOMAIN config.args THEN config.args.valid_tokens
    ELSE ValidTokensArg

\* the allowed_origins argument the CORSMiddleware was constructed with:
\* that of the demonstration chain unless another was given
ConfiguredOrigins ==
    IF "allowed_origins" \in DOMAIN config.args THEN config.args.allowed_origins
    ELSE AllowedOriginsArg

\* handle(rq) on the outermost unit of ch, the wrapped handler taking delay
Handled(ch, rq, delay) ==
    /\ clock + delay <= MaxTime
    /\ LET s0 == [clock |-> clock, cache |-> cache, stored_at |-> stored_at,
                  request_log |-> request_log, users |-> users,
                  metrics |-> metrics,
                  heap |-> [k \in DOMAIN cache |-> heap[k]],
                  req |-> rq, ret |-> NoRef, exc |-> "", exc_status |-> 0,
                  trace |-> <<>>, delay |-> delay, stub |-> stub,
                  valid_tokens |-> ValidTokensFor(ConfiguredTokens),
                  allowed_origins |-> AllowedOriginsFor(ConfiguredOrigins)]
           s == Handle(ch, 1, s0)
       IN /\ clock' = s.clock
          /\ cache' = s.cache
          /\ stored_at' = s.stored_at
          /\ request_log' = s.request_log
          /\ users' = s.users
          /\ metrics' = s.metrics
          /\ heap' = s.heap
          /\ req' = s.req
          /\ ret' = s.ret
          /\ exc' = s.exc
          /\ exc_status' = s.exc_status
          /\ trace' = s.trace
          /\ memo' = Remember(s)
          /\ seen' = Count(s)
    /\ given' = rq
    /\ ncalls' = ncalls + 1
    /\ UNCHANGED <<stub, pair, others>>

\* one of the MaxCalls calls a run makes
Call(ch, rq, delay) ==
    /\ ncalls < MaxCalls
    /\ Handled(ch, rq, delay)

\* time passes between calls
Tick ==
    /\ clock < MaxTime
    /\ clock' = clock + 1
    /\ UNCHANGED <<cache, request_log, users, metrics, heap, req, ret, exc,
                   exc_status, trace, stub, ncalls, stored_at, memo, seen, pair,
                   given, others>>

NoStub == [raises |-> FALSE, status |-> 200, body |-> [doc |-> <<>>, len |-> 0]]
NoPair == [r1 |-> NoRequest, r2 |-> NoRequest, k1 |-> None, k2 |-> None]

\* the units as their constructors leave them, before any call
Fresh ==
    /\ clock = 0
    /\ cache = [k \in {} |-> [rid |-> NoRef, expiry |-> 0]]
    /\ stored_at = [k \in {} |-> 0]
    /\ request_log = [u \in {} |-> <<>>]
    /\ users = InitialUsers
    /\ metrics = InitialMetrics
    /\ heap = [k \in {} |-> NewResponse(0, [doc |-> <<>>, len |-> 0])]
    /\ req = NoRequest
    /\ ret = NoRef
    /\ exc = ""
    /\ exc_status = 0
    /\ trace = <<>>
    /\ ncalls = 0
    /\ memo = [c \in {} |-> 0]
    /\ seen = [u \in {} |-> 0]
    /\ given = NoRequest

\* nothing is constructed beside the chain
NoConfig == [args |-> <<>>, units |-> <<>>]

NoProbe == [present |-> <<>>, name |-> "", result |-> <<>>]

NoThreads == <<>>

\* db_singleton = DBSingleton(): no client, no engine created yet
\* (a client is the number of its engine, NoEngine standing for None)
NoEngine == 0
NoDB == [write_client |-> NoEngine, read_client |-> NoEngine,
         created |-> <<>>, closed |-> {}, leaked |-> {}]

\* a PaymentProcessingFacade over a new DatabaseTransaction, not yet called
NoFacade == [in_transaction |-> FALSE, method |-> "", given |-> <<>>,
             faults |-> {}, calls |-> <<>>, result |-> <<>>, raised |-> ""]

\* a CachingProxy as its constructor leaves it, at time 0, not yet called
NoProxy == [time |-> 0, cache |-> EmptyMap, delegations |-> 0, history |-> <<>>]

Beside ==
    /\ config = NoConfig
    /\ probe = NoProbe
    /\ threads = NoThreads
    /\ proxy = NoProxy
    /\ facade = NoFacade
    /\ db = NoDB

\* the state after demonstrate_decorator_pattern has assembled the chain
Init == Fresh /\ stub = NoStub /\ pair = NoPair /\ Beside

---------------------------------------------------------------------------
(* The full chain of the demonstration.                                    *)

BearerSecret == <<Bearer>> \o SecretToken
ExampleOrigin == <<"https://example.com">>

\* requests in the manner of TEST 1 to TEST 4: GETs with and without the
\* credential, a GET of an unknown endpoint, and POSTs with an absent and
\* with a malformed JSON body
FullRequests ==
    {Request("GET", "/users", Headers(a, Gzip, ExampleOrigin), None, <<>>, EmptyMap, "req") :
        a \in {None, BearerSecret}}
    \cup
    {Request("GET", "/other", Headers(BearerSecret, Gzip, ExampleOrigin), None, <<>>,
             EmptyMap, "req")}
    \cup
    {Request("POST", "/users", Headers(BearerSecret, Gzip, ExampleOrigin), b, <<>>,
             EmptyMap, "req") :
        b \in {None, BadJson}}

CallFull == \E rq \in FullRequests : Call(FullChain, rq, 0)

Next == Tick \/ CallFull

Spec == Init /\ [][Next]_vars


\* the step is a call of handle()
CallStep == ncalls' = ncalls + 1

\* the units a call entered and left, without the clock readings
Path(tr) == [k \in 1..Len(tr) |-> <<tr[k].unit, tr[k].ev>>]

\* the units of ch from the outermost down to the unit name
DownTo(ch, name) ==
    SubSeq(ch, 1, CHOOSE k \in 1..Len(ch) : ch[k] = name)

\* the path of a call that enters units one inside the other and returns
\* from them in the reverse order
Nested(units) ==
    [k \in 1..(2 * Len(units)) |->
        IF k <= Len(units) THEN <<units[k], "enter">>
        ELSE <<units[2 * Len(units) + 1 - k], "exit">>]

\* the responses the cache table holds are the objects they were
SameCached == cache' = cache /\ \A k \in DOMAIN cache : heap'[k] = heap[k]

\* the post-logic of the three units outside AuthenticationMiddleware has
\* acted on the returned response
OuterPostLogic ==
    /\ metrics'.total_requests = metrics.total_requests + 1
    /\ heap'[ret'].execution_time_ms >= 0
    /\ "access-control-allow-origin" \in DOMAIN heap'[ret'].headers

\* C5: when AuthenticationMiddleware answers 401, RateLimitingMiddleware
\* answers 429 or CachingMiddleware serves a hit, every unit outward of it
\* was entered and has returned with its post-logic done, no unit inward of
\* it nor the APIHandler was entered, and the rate-limit log (for 401), the
\* cache table (for 401 and 429) and the APIHandler's users are unchanged.
C5_OrderSensitivity ==
    [][(CallStep /\ exc' = "") =>
        LET response == heap'[ret']
            status == response.status_code
            hit == /\ "x-cache" \in DOMAIN response.headers
                   /\ response.headers["x-cache"] = <<"HIT">>
        IN /\ status = 401 =>
                /\ Path(trace') = Nested(DownTo(FullChain, "Authentication"))
                /\ OuterPostLogic
                /\ request_log' = request_log
                /\ SameCached
                /\ users' = users
           /\ status = 429 =>
                /\ Path(trace') = Nested(DownTo(FullChain, "RateLimiting"))
                /\ OuterPostLogic
                /\ SameCached
                /\ users' = users
           /\ hit =>
                /\ Path(trace') = Nested(DownTo(FullChain, "Caching"))
                /\ OuterPostLogic
                /\ users' = users]_vars

\* C5 witness: RateLimitingMiddleware answered 429 while the cache table
\* held an entry, and the three outer units returned after it
C5_Witness ==
    /\ ret # NoRef
    /\ heap[ret].status_code = 429
    /\ cache # EmptyMap
    /\ Path(trace) = Nested(DownTo(FullChain, "RateLimiting"))
    /\ metrics.total_requests = ncalls

\* C6: a call that no unit short-circuits enters the units from the
\* outermost to the innermost in the order they were wrapped, runs the
\* terminal handler once, and returns from them in the reverse order.
C6_ConstructionOrder ==
    [][(CallStep /\ Entered(trace', "API") = 1)
       => Path(trace') = Nested(FullChain)]_vars

---------------------------------------------------------------------------
(* The CachingMiddleware of the chain, called directly: it wraps           *)
(* CompressionMiddleware(APIHandler).                                      *)

CacheChain == Inward(FullChain, "Caching")

\* GETs of one request class with its query parameters inserted in
\* either order, and a GET the handler answers with 404
CacheReads ==
    {Request("GET", "/users", Headers(None, Gzip, None), None, q, EmptyMap, "req") :
        q \in {QueryAB, QueryBA}}
    \cup
    {Request("GET", "/other", Headers(None, Gzip, None), None, QueryAB, EmptyMap, "req")}

\* the methods other than GET (PUT and PATCH take DELETE's way through
\* every unit)
CacheWrites ==
    {Request(m, "/users", Headers(None, Gzip, None), None, QueryAB, EmptyMap, "req") :
        m \in {"POST", "DELETE"}}

\* a GET takes the wrapped handler up to MaxDelay units of time
CallCache ==
    \/ \E rq \in CacheReads, d \in 0..MaxDelay : Call(CacheChain, rq, d)
    \/ \E rq \in CacheWrites : Call(CacheChain, rq, 0)

NextCache == Tick \/ CallCache

SpecCache == Init /\ [][NextCache]_vars

\* C1: a GET of a request class (method, path, query mapping) whose last
\* GET got a 2xx response, arriving before the entry that holds that
\* response expires, returns the same body and does not call the wrapped
\* handler.
C1_IdempotentCacheReads ==
    [][(/\ CallStep
        /\ req'.method = "GET"
        /\ ClassOf(req') \in DOMAIN memo
        /\ memo[ClassOf(req')].status \in 200..299
        /\ memo[ClassOf(req')].held
        /\ EnteredAt(trace', "Caching") < memo[ClassOf(req')].expiry)
       => (/\ Entered(trace', "Compression") = 0
           /\ heap'[ret'].body = memo[ClassOf(req')].body)]_vars

\* C1 restricted to requests whose query parameters were inserted in the
\* same order as those of the class's last GET
C1_SameInsertionOrder ==
    [][(/\ CallStep
        /\ req'.method = "GET"
        /\ ClassOf(req') \in DOMAIN memo
        /\ memo[ClassOf(req')].key = GenerateCacheKey(req')
        /\ memo[ClassOf(req')].status \in 200..299
        /\ memo[ClassOf(req')].held
        /\ EnteredAt(trace', "Caching") < memo[ClassOf(req')].expiry)
       => (/\ Entered(trace', "Compression") = 0
           /\ heap'[ret'].body = memo[ClassOf(req')].body)]_vars

\* C2: a lookup of a key whose entry was put in the table at stored_at is
\* a hit without delegation at any time before stored_at + ttl, and a
\* miss with exactly one delegation at any time after stored_at + ttl.
C2_TTLBoundary ==
    [][(/\ CallStep
        /\ req'.method = "GET"
        /\ GenerateCacheKey(req') \in DOMAIN cache)
       => LET t == EnteredAt(trace', "Caching")
              expires == stored_at[GenerateCacheKey(req')] + TTL
          IN /\ t < expires => Entered(trace', "Compression") = 0
             /\ t > expires => Entered(trace', "Compression") = 1]_vars

\* C3: a request whose method is not GET is handed to the wrapped handler
\* exactly once, whatever the cache holds, and the cache table and the
\* responses it holds are the same before and after the call.
C3_NonCacheableBypass ==
    [][(CallStep /\ req'.method # "GET")
       => (/\ Entered(trace', "Compression") = 1
           /\ cache' = cache
           /\ \A k \in DOMAIN cache : heap'[k] = heap[k]
           /\ ret' \notin DOMAIN cache')]_vars

\* C3 witness: a non-GET call went to the wrapped handler while the table
\* held an entry for the same path and query parameters
C3_Witness ==
    /\ req.method = "POST"
    /\ Entered(trace, "Compression") = 1
    /\ GenerateCacheKey([req EXCEPT !.method = "GET"]) \in DOMAIN cache

\* C4: a GET answered by the wrapped handler with a status outside
\* 200..299 leaves no entry for its key, and the next GET of the same
\* request class is handed to the wrapped handler again.
C4_FailureIsolation ==
    [][(CallStep /\ req'.method = "GET")
       => (/\ (Entered(trace', "Compression") = 1 /\ ~IsSuccess(heap'[ret']))
                => GenerateCacheKey(req') \notin DOMAIN cache'
           /\ (/\ ClassOf(req') \in DOMAIN memo
               /\ memo[ClassOf(req')].delegated = 1
               /\ ~(memo[ClassOf(req')].status \in 200..299))
                => Entered(trace', "Compression") = 1)]_vars

\* C4 witness: the GET before this one of the same class was answered with
\* a failure, and this one went to the wrapped handler again
C4_Witness ==
    /\ req.method = "GET"
    /\ ClassOf(req) \in DOMAIN memo
    /\ memo[ClassOf(req)].after_failure
    /\ memo[ClassOf(req)].delegated = 1
    /\ GenerateCacheKey(req) \notin DOMAIN cache


---------------------------------------------------------------------------
(* The RateLimitingMiddleware of the chain, called directly: the identity  *)
(* is what request.context carries.                                        *)

RateChain == Inward(FullChain, "RateLimiting")

\* context={"user_id": ...} or an empty context
Context(user_id) == [n \in {"user_id"} |-> user_id]

RateRequests ==
    {Request("GET", "/users", EmptyMap, None, <<>>, c, "req") :
        c \in {EmptyMap, Context("user_123")}}
    \cup
    {Request("POST", "/users", EmptyMap, BadJson, <<>>, Context("user_123"), "req")}

CallRate == \E rq \in RateRequests : Call(RateChain, rq, 0)

NextRate == Tick \/ CallRate

SpecRate == Init /\ [][NextRate]_vars

\* C7: of the first max_requests + 1 requests of an identity on a fresh
\* limiter, all arriving within the window, requests 1..max_requests are
\* handed to the wrapped handler and request max_requests + 1 gets 429
\* without the wrapped handler being called.
C7_RateLimitThreshold ==
    [][CallStep =>
        LET u == UserIdOf(req')
            t == EnteredAt(trace', "RateLimiting")
            first == IF u \in DOMAIN seen THEN seen[u].first ELSE t
            nth == (IF u \in DOMAIN seen THEN seen[u].n ELSE 0) + 1
        IN t - first < Window =>
            /\ nth <= MaxRequests => Entered(trace', "Caching") = 1
            /\ nth = MaxRequests + 1 =>
                /\ Entered(trace', "Caching") = 0
                /\ exc' = ""
                /\ heap'[ret'].status_code = 429]_vars

\* C7 witness: request max_requests + 1 of an identity, inside the window
\* opened by its first, was answered 429
C7_Witness ==
    /\ Entered(trace, "RateLimiting") = 1
    /\ UserIdOf(req) \in DOMAIN seen
    /\ seen[UserIdOf(req)].n = MaxRequests + 1
    /\ EnteredAt(trace, "RateLimiting") - seen[UserIdOf(req)].first < Window
    /\ ret # NoRef
    /\ heap[ret].status_code = 429


\* the entries of a log made after the instant cutoff
After(entries, cutoff) ==
    {k \in 1..Len(entries) : entries[k].ts > cutoff}

\* the step is a call, and of it: the identity, the time the limiter read,
\* whether it delegated
RateCall ==
    [u |-> UserIdOf(req'),
     now |-> EnteredAt(trace', "RateLimiting"),
     delegated |-> Entered(trace', "Caching") = 1]

\* the admission rule: delegated iff fewer than max_requests admitted
\* requests of the identity lie within the window; a rejection is a 429 and
\* adds no entry
AdmissionRule ==
    LET c == RateCall
        before == LogOf(request_log, c.u)
        recent == Cardinality(After(before, c.now - Window))
    IN /\ c.delegated <=> recent < MaxRequests
       /\ ~c.delegated =>
            /\ heap'[ret'].status_code = 429
            /\ Len(request_log'[c.u]) = recent
       /\ c.delegated => Len(request_log'[c.u]) = recent + 1

\* the log of identity v holds at most max_requests entries, all made
\* within the window that ends at the time of the call
WithinWindow(v) ==
    /\ Len(request_log'[v]) <= MaxRequests
    /\ After(request_log'[v], RateCall.now - Window) = 1..Len(request_log'[v])

\* C23: a request is delegated iff fewer than max_requests admitted
\* requests of its identity have a timestamp greater than now - window; a
\* rejected request adds no entry; after every call the log of each
\* identity holds at most max_requests entries, all within the window.
C23_SlidingWindow ==
    [][CallStep =>
        /\ AdmissionRule
        /\ \A v \in DOMAIN request_log' : WithinWindow(v)]_vars

\* C23 as the code has it: the window bound holds of the log of the calling
\* identity; the logs of the other identities are left as they were and
\* keep at most max_requests entries, which may be older than the window.
C23_CallerWindow ==
    [][CallStep =>
        /\ AdmissionRule
        /\ WithinWindow(RateCall.u)
        /\ \A v \in DOMAIN request_log' \ {RateCall.u} :
             /\ v \in DOMAIN request_log
             /\ request_log'[v] = request_log[v]
             /\ Len(request_log'[v]) <= MaxRequests]_vars

\* C23 witness: a request was delegated and entered in its identity's log
\* while the log of another identity holds an entry older than the window
C23_Witness ==
    /\ Entered(trace, "Caching") = 1
    /\ UserIdOf(req) \in DOMAIN request_log
    /\ \E v \in DOMAIN request_log \ {UserIdOf(req)} :
         \E k \in 1..Len(request_log[v]) :
            request_log[v][k].ts <= EnteredAt(trace, "RateLimiting") - Window


\* the calls it takes an identity to be rejected and let through again
CallRecover ==
    \E rq \in RateRequests :
        /\ ncalls < MaxRequests + 2
        /\ Handled(RateChain, rq, 0)

NextRecover == Tick \/ CallRecover

SpecRecover == Init /\ [][NextRecover]_vars

\* C24: a request of an identity arriving window_seconds or more after the
\* oldest entry of its log is delegated, whatever was rejected in the
\* meantime, and an identity is not answered 429 over a stretch of
\* window_seconds or more.
C24_Recovery ==
    [][CallStep =>
        LET c == RateCall
            before == LogOf(request_log, c.u)
        IN /\ (before # <<>> /\ c.now >= before[1].ts + Window) => c.delegated
           /\ ~c.delegated =>
                /\ seen'[c.u].blocked_since # -1
                /\ c.now - seen'[c.u].blocked_since < Window]_vars

\* C24 witness: an identity that had been answered 429 was let through
\* again when window_seconds had passed since the oldest entry of its log
C24_Witness ==
    /\ UserIdOf(req) \in DOMAIN seen
    /\ seen[UserIdOf(req)].recovered
    /\ Entered(trace, "Caching") = 1
    /\ seen[UserIdOf(req)].n > MaxRequests + 1


---------------------------------------------------------------------------
(* The AuthenticationMiddleware of the chain, called once with every       *)
(* Authorization header made of the pieces of the configured credentials.  *)

AuthChain == Inward(FullChain, "Authentication")

\* the pieces Authorization headers are made of: no piece begins another,
\* and "Bearer " occurs in a header only as a piece
AuthChunks == {Bearer, "bearer ", "secret-", "token-123", "admin-", "token-456"}

\* the strings of at most n pieces
RECURSIVE Strings(_, _)
Strings(alphabet, n) ==
    IF n = 0 THEN {<<>>}
    ELSE LET shorter == Strings(alphabet, n - 1)
         IN shorter \cup {Append(w, c) : w \in shorter, c \in alphabet}

AuthRequests ==
    {Request("GET", "/users", Headers(a, None, None), None, <<>>, EmptyMap, "req") :
        a \in {None} \cup Strings(AuthChunks, MaxAuthLen)}

\* the first call on the assembled units
First(ch, rq) == ncalls = 0 /\ Call(ch, rq, 0)

CallAuth == \E rq \in AuthRequests : First(AuthChain, rq)

NextAuth == CallAuth

SpecAuth == Init /\ [][NextAuth]_vars

\* the header is exactly "Bearer " followed by a token of the valid set
WellFormed(auth_header) ==
    /\ auth_header # None
    /\ auth_header # <<>>
    /\ auth_header[1] = Bearer
    /\ Tail(auth_header) \in ValidTokens

\* C8: a request whose authorization header is absent, empty, or not
\* exactly "Bearer " followed by a valid token gets a 401 response, the
\* wrapped handler is not called, and no exception is raised.
C8_MalformedCredential ==
    [][(CallStep /\ ~WellFormed(GetHeader(given', "authorization", None)))
       => (/\ exc' = ""
           /\ heap'[ret'].status_code = 401
           /\ Entered(trace', "RateLimiting") = 0)]_vars


---------------------------------------------------------------------------
(* AuthenticationMiddleware constructed with any set of tokens.            *)

GuestToken == <<"guest-", "token-789">>

TokenPool == {SecretToken, AdminToken, GuestToken}

InitTokens ==
    /\ Fresh
    /\ stub = NoStub
    /\ pair = NoPair
    /\ probe = NoProbe
    /\ threads = NoThreads
    /\ proxy = NoProxy
    /\ facade = NoFacade
    /\ db = NoDB
    /\ \E valid_tokens \in SUBSET TokenPool :
         config = [args |-> [valid_tokens |-> valid_tokens], units |-> <<>>]

\* requests that carry "Bearer " and a token, and one that carries none
TokenRequests ==
    {Request("GET", "/users", Headers(a, None, None), None, <<>>, EmptyMap, "req") :
        a \in {None} \cup {<<Bearer>> \o token : token \in TokenPool}}

CallTokens == \E rq \in TokenRequests : Call(AuthChain, rq, 0)

NextTokens == Tick \/ CallTokens

SpecTokens == InitTokens /\ [][NextTokens]_vars

\* C26: for every set of tokens given to the constructor, the empty set
\* included, a request whose token is not in that set gets 401 and is not
\* delegated.
C26_OnlyConfiguredTokens ==
    [][(/\ CallStep
        /\ GetHeader(given', "authorization", None) # None
        /\ Remove(GetHeader(given', "authorization", None), Bearer)
             \notin config.args.valid_tokens)
       => (/\ exc' = ""
           /\ heap'[ret'].status_code = 401
           /\ Entered(trace', "RateLimiting") = 0)]_vars

---------------------------------------------------------------------------
(* CachingMiddleware._generate_cache_key applied to two requests.          *)

\* query parameters of up to two names, inserted in either order
KeyQueries == {<<>>, << <<"a", "1">> >>, << <<"a", "2">> >>, QueryAB, QueryBA}

KeyRequests ==
    {Request(m, p, Headers(None, e, None), None, q, EmptyMap, id) :
        m \in {"GET", "POST"}, p \in {"/users", "/other"}, q \in KeyQueries,
        e \in {None, Gzip}, id \in {"req-1", "req-2"}}

InitKey ==
    /\ Fresh
    /\ stub = NoStub
    /\ pair \in {[r1 |-> r1, r2 |-> r2, k1 |-> None, k2 |-> None] :
                    r1 \in KeyRequests, r2 \in KeyRequests}
    /\ Beside

ComputeKeys ==
    /\ pair.k1 = None
    /\ pair' = [pair EXCEPT !.k1 = GenerateCacheKey(pair.r1),
                            !.k2 = GenerateCacheKey(pair.r2)]
    /\ UNCHANGED <<clock, cache, request_log, users, metrics, heap, req, ret,
                   exc, exc_status, trace, stub, ncalls, stored_at, memo, seen,
                   given, others>>

NextKey == ComputeKeys

SpecKey == InitKey /\ [][NextKey]_vars

\* C9: two requests with the same method, the same path and the same
\* query-parameter mapping get the same cache key, whatever their headers
\* and request ids.
C9_KeyIsFunctionOfClass ==
    (pair.k1 # None /\ ClassOf(pair.r1) = ClassOf(pair.r2)) => pair.k1 = pair.k2

---------------------------------------------------------------------------
(* CompressionMiddleware around a stand-in handler, called once.           *)

CompressChain == <<"Compression", "Stub">>

\* the characters Accept-Encoding values are made of
EncChars == {"g", "G", "z", "i", "p"}

CompressRequests ==
    {Request("GET", "/users", Headers(None, e, None), None, <<>>, EmptyMap, "req") :
        e \in {None} \cup Strings(EncChars, MaxEncLen)}

\* the stand-in answers with a body around the threshold, or raises
Stubs ==
    {[raises |-> FALSE, status |-> 200, body |-> [doc |-> <<"x">>, len |-> n]] :
        n \in (MinCompressSize - MaxOver)..(MinCompressSize + MaxOver)}
    \cup {[raises |-> TRUE, status |-> 500, body |-> [doc |-> <<>>, len |-> 0]]}

InitCompress == Fresh /\ stub \in Stubs /\ pair = NoPair /\ Beside

CallCompress == \E rq \in CompressRequests : First(CompressChain, rq)

NextCompress == CallCompress

SpecCompress == InitCompress /\ [][NextCompress]_vars

\* the value declares gzip in some letter case
DeclaresGzip(enc) ==
    /\ enc # None
    /\ \E k \in 1..(Len(enc) - 3) :
         /\ enc[k] \in {"g", "G"}
         /\ enc[k + 1] \in {"z", "Z"}
         /\ enc[k + 2] \in {"i", "I"}
         /\ enc[k + 3] \in {"p", "P"}

\* C10: CompressionMiddleware hands the request, unchanged, to the wrapped
\* handler exactly once before anything else; the response it returns is
\* the wrapped handler's with content-encoding: gzip and the two size
\* headers added when the accept-encoding header declares gzip in any
\* letter case and the body is longer than 100 characters, and is the
\* wrapped handler's response as it was otherwise.
C10_CompressionMarking ==
    [][CallStep =>
        LET enc == GetHeader(given', "accept-encoding", None)
            produced == NewResponse(stub.status, stub.body)
            response == heap'[ret']
        IN /\ Entered(trace', "Stub") = 1
           /\ Path(trace')[1] = <<"Compression", "enter">>
           /\ Path(trace')[2] = <<"Stub", "enter">>
           /\ req' = given'
           /\ exc' = "" =>
                IF DeclaresGzip(enc) /\ stub.body.len > 100
                THEN /\ response.status_code = produced.status_code
                     /\ response.body = produced.body
                     /\ DOMAIN response.headers =
                          {"content-encoding", "x-original-size", "x-compressed-size"}
                     /\ response.headers["content-encoding"] = Gzip
                ELSE response = produced]_vars

\* C10 witness: a body of 101 characters was marked as compressed for a
\* request that declared gzip with a capital letter
C10_Witness ==
    /\ ncalls = 1
    /\ GetHeader(given, "accept-encoding", None) = <<"G", "z", "i", "p">>
    /\ stub.body.len = 101
    /\ exc = ""
    /\ "content-encoding" \in DOMAIN heap[ret].headers


---------------------------------------------------------------------------
(* MetricsMiddleware(LoggingMiddleware(handler)) around a stand-in handler *)
(* whose answer varies from call to call.                                  *)

MetricsChain == <<"Metrics", "Logging", "Stub">>

\* the stand-in returns a response of status 200 or 404, or raises an
\* HTTPException of status 404 or 500
MetricsStubs ==
    {[raises |-> FALSE, status |-> c, body |-> [doc |-> <<"x">>, len |-> 1]] :
        c \in {200, 404}}
    \cup
    {[raises |-> TRUE, status |-> c, body |-> [doc |-> <<"x">>, len |-> 1]] :
        c \in {404, 500}}

MetricsRequests ==
    {Request("GET", p, EmptyMap, None, <<>>, EmptyMap, "req") :
        p \in {"/users", "/products"}}

\* the wrapped handler is about to behave otherwise
SetStub ==
    /\ stub' \in MetricsStubs \ {stub}
    /\ UNCHANGED <<clock, cache, request_log, users, metrics, heap, req, ret,
                   exc, exc_status, trace, ncalls, stored_at, memo, seen, pair,
                   given, others>>

CallMetrics ==
    \E rq \in MetricsRequests, d \in 0..MaxDelay : Call(MetricsChain, rq, d)

NextMetrics == SetStub \/ CallMetrics

SpecMetrics == Init /\ [][NextMetrics]_vars

\* d.get(key, 0) of a counter table
CountOf(d, key) == IF key \in DOMAIN d THEN d[key] ELSE 0

\* C11: when the wrapped handler raises HTTPException, LoggingMiddleware
\* and MetricsMiddleware each let that exception out to their caller and
\* no response is returned; Metrics has added one to total_requests, to
\* failed_requests and to the count of the exception's status code.
C11_ExceptionsPropagate ==
    [][(CallStep /\ stub.raises) =>
        /\ exc' = "HTTPException"
        /\ exc_status' = stub.status
        /\ ret' = NoRef
        /\ Path(trace') = << <<"Metrics", "enter">>, <<"Logging", "enter">>,
                             <<"Stub", "enter">>, <<"Stub", "raise">>,
                             <<"Logging", "raise">>, <<"Metrics", "raise">> >>
        /\ metrics'.total_requests = metrics.total_requests + 1
        /\ metrics'.failed_requests = metrics.failed_requests + 1
        /\ metrics'.successful_requests = metrics.successful_requests
        /\ CountOf(metrics'.status_codes, stub.status)
             = CountOf(metrics.status_codes, stub.status) + 1]_vars

\* C11 witness: the second HTTPException of status 500 came out of the
\* chain and both were counted
C11_Witness ==
    /\ exc = "HTTPException"
    /\ exc_status = 500
    /\ Path(trace)[Len(trace)] = <<"Metrics", "raise">>
    /\ metrics.failed_requests = 2
    /\ CountOf(metrics.status_codes, 500) = 2


\* sum(d.values()) of a counter table
RECURSIVE SumOf(_)
SumOf(d) ==
    IF DOMAIN d = {} THEN 0
    ELSE LET k == CHOOSE k \in DOMAIN d : TRUE
         IN d[k] + SumOf([j \in DOMAIN d \ {k} |-> d[j]])

MetricsConsistent ==
    /\ metrics.total_requests
         = metrics.successful_requests + metrics.failed_requests
    /\ metrics.total_requests = SumOf(metrics.status_codes)

\* C25: after any sequence of calls that returned a response or let an
\* HTTPException out, total_requests = successful_requests +
\* failed_requests = the sum of the status_codes counts, and
\* successful_requests has grown by one with exactly the calls that
\* returned a status in 200..299.
C25_MetricsConsistency ==
    /\ []MetricsConsistent
    /\ [][CallStep =>
            metrics'.successful_requests = metrics.successful_requests +
                (IF exc' = "" /\ heap'[ret'].status_code \in 200..299
                 THEN 1 ELSE 0)]_vars

\* C25 witness: calls that returned 2xx, that returned a failure and that
\* let an HTTPException out have all been counted
C25_Witness ==
    /\ exc = "HTTPException"
    /\ metrics.successful_requests = 1
    /\ metrics.failed_requests = 2
    /\ CountOf(metrics.status_codes, 404) >= 1
    /\ CountOf(metrics.status_codes, 200) = 1


---------------------------------------------------------------------------
(* Construction of the configurable units. raised tells whether __init__   *)
(* ended in an exception.                                                  *)

\* CachingMiddleware.__init__
CachingMiddlewareInit(ttl_seconds) ==
    [raised |-> FALSE, ttl_seconds |-> ttl_seconds, window_seconds |-> 0,
     max_requests |-> 0]

\* RateLimitingMiddleware.__init__
RateLimitingMiddlewareInit(max_requests, window_seconds) ==
    [raised |-> FALSE, ttl_seconds |-> 0, window_seconds |-> window_seconds,
     max_requests |-> max_requests]

\* CachingProxy.__init__: _cache_ttl is kept as ttl_seconds
CachingProxyInit(cache_ttl_seconds) ==
    [raised |-> FALSE, ttl_seconds |-> cache_ttl_seconds, window_seconds |-> 0,
     max_requests |-> 0]

Args == (-MaxArg)..MaxArg

InitConfig ==
    /\ Fresh
    /\ stub = NoStub
    /\ pair = NoPair
    /\ config \in {[args |-> [ttl_seconds |-> a, max_requests |-> b,
                              window_seconds |-> c, cache_ttl_seconds |-> d],
                    units |-> [u \in {} |-> CachingProxyInit(0)]] :
                      a \in Args, b \in Args, c \in Args, d \in Args}
    /\ probe = NoProbe
    /\ threads = NoThreads
    /\ proxy = NoProxy
    /\ facade = NoFacade
    /\ db = NoDB

\* a unit is constructed from the arguments
Construct(name, unit) ==
    /\ name \notin DOMAIN config.units
    /\ config' = [config EXCEPT !.units =
                     [u \in DOMAIN config.units \cup {name} |->
                         IF u = name THEN unit ELSE config.units[u]]]
    /\ UNCHANGED <<chain, probe, threads, proxy, facade, db>>

ConstructCaching ==
    Construct("CachingMiddleware", CachingMiddlewareInit(config.args.ttl_seconds))

ConstructRateLimiting ==
    Construct("RateLimitingMiddleware",
              RateLimitingMiddlewareInit(config.args.max_requests,
                                         config.args.window_seconds))

ConstructProxy ==
    Construct("CachingProxy", CachingProxyInit(config.args.cache_ttl_seconds))

NextConfig == ConstructCaching \/ ConstructRateLimiting \/ ConstructProxy

SpecConfig == InitConfig /\ [][NextConfig]_vars

\* C12: the construction of a CachingMiddleware or CachingProxy with a
\* negative TTL, or of a RateLimitingMiddleware with a negative
\* max_requests or window_seconds, ends in an error, so that no such unit
\* exists to handle a request.
C12_FailFast ==
    \A u \in DOMAIN config.units :
        (\/ config.units[u].ttl_seconds < 0
         \/ config.units[u].max_requests < 0
         \/ config.units[u].window_seconds < 0) => config.units[u].raised


---------------------------------------------------------------------------
(* More of the full chain.                                                 *)

\* the call has put a new object in the table under key k, or taken the
\* old one out of it
Replaced(k) ==
    /\ req'.method = "GET"
    /\ GenerateCacheKey(req') = k
    /\ Entered(trace', "Compression") = 1

\* C13: a response the chain has returned to a caller (every object the
\* cache table holds has been) is not changed by a later call: status,
\* body, headers and execution time stay as they were.
C13_ReturnedResponseImmutable ==
    [][CallStep =>
        \A k \in DOMAIN cache : ~Replaced(k) => heap'[k] = heap[k]]_vars


---------------------------------------------------------------------------
(* The headers of an HTTPRequest: given at construction, added with        *)
(* set_header, looked up with get_header.                                  *)

\* two header names in several letter cases
HeaderNames == {"authorization", "Authorization", "AUTHORIZATION", "origin", "Origin"}

HeaderValues == {<<"v1">>, <<"v2">>}

\* the mapping {name: value} with one header
OneHeader(name, value) == [n \in {name} |-> value]

\* the mapping m with one more header
WithHeader(m, name, value) ==
    [n \in DOMAIN m \cup {name} |-> IF n = name THEN value ELSE m[n]]

\* HTTPRequest(method, path) and HTTPRequest(method, path, headers={n: v})
InitHeader ==
    /\ Fresh
    /\ stub = NoStub
    /\ pair = NoPair
    /\ config = NoConfig
    /\ threads = NoThreads
    /\ proxy = NoProxy
    /\ facade = NoFacade
    /\ db = NoDB
    /\ \/ probe = NoProbe
       \/ \E n \in HeaderNames, v \in HeaderValues :
            probe = [NoProbe EXCEPT !.present = OneHeader(n, v)]

\* the request as its constructor makes it of the headers given
Constructed == Request("GET", "/users", probe.present, None, <<>>, EmptyMap, "req")

\* the request under test: req once a header was set, else as constructed
Probed == IF req = NoRequest THEN Constructed ELSE req

\* request.set_header(n, v)
CallSetHeader ==
    \E n \in HeaderNames, v \in HeaderValues :
        /\ req' = RequestSetHeader(Probed, n, v)
        /\ probe' = [probe EXCEPT !.present = WithHeader(@, n, v),
                                  !.name = "", !.result = <<>>]
        /\ UNCHANGED <<clock, cache, request_log, users, metrics, heap, ret,
                       exc, exc_status, trace, stub, ncalls, stored_at, memo,
                       seen, pair, given, config, threads, proxy, facade, db>>

\* request.get_header(n)
CallGetHeader ==
    \E n \in HeaderNames :
        /\ probe' = [probe EXCEPT !.name = n,
                                  !.result = GetHeader(Probed, n, None)]
        /\ UNCHANGED <<chain, config, threads, proxy, facade, db>>

NextHeader == CallSetHeader \/ CallGetHeader

SpecHeader == InitHeader /\ [][NextHeader]_vars

\* C14: get_header called with any letter case of the name of a header that
\* was given to the request, at construction or with set_header and in
\* whatever letter case, returns a value given for that name.
C14_HeaderCaseInsensitive ==
    probe.name # "" =>
        \A n \in DOMAIN probe.present :
            LowerName(n) = LowerName(probe.name) =>
                \E m \in DOMAIN probe.present :
                    /\ LowerName(m) = LowerName(n)
                    /\ probe.result = probe.present[m]


---------------------------------------------------------------------------
(* Outcomes of the full chain and what MetricsMiddleware counts of them.   *)

\* C15: every call of handle on the demonstration chain, whatever the
\* request and its body, returns a response and raises nothing.
C15_NeverRaises ==
    [][CallStep => (exc' = "" /\ ret' \in DOMAIN heap')]_vars

\* C16: total_requests is the number of handle calls made on the chain,
\* and every call answered 401 or 429 has been counted in failed_requests.
C16_MetricsObserveEveryCall ==
    [][CallStep =>
        /\ metrics'.total_requests = ncalls'
        /\ (exc' = "" /\ heap'[ret'].status_code \in {401, 429})
             => metrics'.failed_requests = metrics.failed_requests + 1]_vars

\* C16 for the calls that return: each is counted once, and as failed when
\* it was rejected
C16_ReturningCallsCounted ==
    [][(CallStep /\ exc' = "") =>
        /\ metrics'.total_requests = metrics.total_requests + 1
        /\ heap'[ret'].status_code \in {401, 429}
             => metrics'.failed_requests = metrics.failed_requests + 1]_vars


---------------------------------------------------------------------------
(* RateLimitingMiddleware.handle called by several threads for the same    *)
(* identity: the code takes no lock, so the calls interleave between its   *)
(* statements.                                                             *)

Threads == 1..NumThreads

\* the identity of every concurrent request
ConcUser == "user_123"

\* a thread that has not called handle yet
IdleThread ==
    [pc |-> "idle", now |-> 0, kept |-> <<>>, recent_requests |-> 0, outcome |-> ""]

InitRateConc ==
    /\ Fresh
    /\ stub = NoStub
    /\ pair = NoPair
    /\ config = NoConfig
    /\ probe = NoProbe
    /\ proxy = NoProxy
    /\ facade = NoFacade
    /\ db = NoDB
    /\ threads = [t \in Threads |-> IdleThread]

\* what a step of a rate-limiter thread leaves alone
RateConcFrame ==
    UNCHANGED <<cache, users, metrics, heap, req, ret, exc, exc_status, trace,
                stub, ncalls, stored_at, memo, seen, pair, given, config, probe,
                proxy, facade, db>>

\* thread t goes from pc to next with its record changed to rec
Step(t, pc, rec) ==
    /\ threads[t].pc = pc
    /\ threads' = [threads EXCEPT ![t] = rec]

\* self.request_log[user_id] = entries
SetLog(entries) ==
    request_log' = [u \in DOMAIN request_log \cup {ConcUser} |->
                       IF u = ConcUser THEN entries ELSE request_log[u]]

\* user_id = ...; now = datetime.now(); cutoff = now - timedelta(...)
RLBegin(t) ==
    /\ Step(t, "idle", [threads[t] EXCEPT !.pc = "prune", !.now = clock])
    /\ UNCHANGED <<clock, request_log>>
    /\ RateConcFrame

\* [(ts, count) for ts, count in self.request_log[user_id] if ts > cutoff]:
\* the new list is built from the log as it is now
RLPrune(t) ==
    /\ Step(t, "prune",
            [threads[t] EXCEPT !.pc = "store",
                 !.kept = SelectSeq(LogOf(request_log, ConcUser),
                                    LAMBDA e : e.ts > threads[t].now - Window)])
    /\ UNCHANGED <<clock, request_log>>
    /\ RateConcFrame

\* self.request_log[user_id] = the list just built
RLStore(t) ==
    /\ Step(t, "store", [threads[t] EXCEPT !.pc = "count", !.kept = <<>>])
    /\ SetLog(threads[t].kept)
    /\ UNCHANGED clock
    /\ RateConcFrame

\* recent_requests = sum(count for _, count in self.request_log[user_id])
RLCount(t) ==
    /\ Step(t, "count",
            [threads[t] EXCEPT !.pc = "check",
                 !.recent_requests = SumCounts(LogOf(request_log, ConcUser))])
    /\ UNCHANGED <<clock, request_log>>
    /\ RateConcFrame

\* if recent_requests >= self.max_requests: return HTTPResponse(429)
RLCheck(t) ==
    /\ Step(t, "check",
            IF OverLimit(threads[t].recent_requests)
            THEN [threads[t] EXCEPT !.pc = "done", !.outcome = "429"]
            ELSE [threads[t] EXCEPT !.pc = "append"])
    /\ UNCHANGED <<clock, request_log>>
    /\ RateConcFrame

\* self.request_log[user_id].append((now, 1))
RLAppend(t) ==
    /\ Step(t, "append", [threads[t] EXCEPT !.pc = "delegate"])
    /\ SetLog(Append(LogOf(request_log, ConcUser),
                     [ts |-> threads[t].now, count |-> 1]))
    /\ UNCHANGED clock
    /\ RateConcFrame

\* return self._handler.handle(request)
RLDelegate(t) ==
    /\ Step(t, "delegate", [threads[t] EXCEPT !.pc = "done", !.outcome = "delegated"])
    /\ UNCHANGED <<clock, request_log>>
    /\ RateConcFrame

\* time passes between calls; the statements of a call take none
TickBetween ==
    /\ \A t \in Threads : threads[t].pc \in {"idle", "done"}
    /\ Tick

NextRateConc ==
    \/ TickBetween
    \/ \E t \in Threads : RLBegin(t)
    \/ \E t \in Threads : RLPrune(t)
    \/ \E t \in Threads : RLStore(t)
    \/ \E t \in Threads : RLCount(t)
    \/ \E t \in Threads : RLCheck(t)
    \/ \E t \in Threads : RLAppend(t)
    \/ \E t \in Threads : RLDelegate(t)

SpecRateConc == InitRateConc /\ [][NextRateConc]_vars

\* the threads whose request was handed to the wrapped handler
Delegated == {t \in Threads : threads[t].outcome = "delegated"}

\* the threads that have appended their entry to the log
Appended == {t \in Threads : threads[t].pc \in {"delegate", "done"}
                             /\ threads[t].outcome # "429"}

\* C17: of the concurrent requests of one identity, at most max_requests
\* with timestamps inside one window are handed to the wrapped handler, and
\* the log holds an entry for every admitted request still inside the
\* window.
C17_NoLostUpdates ==
    /\ \A t0 \in Delegated :
         Cardinality({t \in Delegated :
                         /\ threads[t].now <= threads[t0].now
                         /\ threads[t].now > threads[t0].now - Window})
           <= MaxRequests
    /\ \A x \in (clock - Window + 1)..clock :
         Cardinality({t \in Appended : threads[t].now = x})
           <= Len(SelectSeq(LogOf(request_log, ConcUser), LAMBDA e : e.ts = x))


---------------------------------------------------------------------------
(* CachingMiddleware.handle called by several threads with GETs of the     *)
(* same key: the code takes no lock, so the calls interleave between its   *)
(* statements.                                                             *)

\* the request of every concurrent call
ConcRequest == Request("GET", "/users", EmptyMap, None, <<>>, EmptyMap, "req")

ConcKey == GenerateCacheKey(ConcRequest)

\* the response object thread t got from the wrapped handler
RidOf(t) == <<"by thread", ToString(t)>>

IdleCacheThread ==
    [pc |-> "idle", now |-> 0, expiry |-> 0, response |-> NoRef, outcome |-> ""]

InitCacheConc ==
    /\ Fresh
    /\ stub = NoStub
    /\ pair = NoPair
    /\ config = NoConfig
    /\ probe = NoProbe
    /\ proxy = NoProxy
    /\ facade = NoFacade
    /\ db = NoDB
    /\ threads = [t \in Threads |-> IdleCacheThread]

\* what a step of a cache thread leaves alone
CacheConcFrame ==
    UNCHANGED <<clock, request_log, users, metrics, heap, req, ret, exc,
                exc_status, trace, stub, ncalls, memo, seen, pair, given,
                config, probe, proxy, facade, db>>

\* the table is left as it is
CacheSame == UNCHANGED <<cache, stored_at>>

\* cache_key = self._generate_cache_key(request); now = datetime.now()
CBegin(t) ==
    /\ Step(t, "idle", [threads[t] EXCEPT !.pc = "member", !.now = clock])
    /\ CacheSame
    /\ CacheConcFrame

\* if cache_key in self.cache
CMember(t) ==
    /\ Step(t, "member",
            [threads[t] EXCEPT !.pc = IF ConcKey \in DOMAIN cache THEN "read"
                                      ELSE "delegate"])
    /\ CacheSame
    /\ CacheConcFrame

\* cached_response, expiry = self.cache[cache_key]: KeyError if the key is
\* no longer there
CRead(t) ==
    /\ Step(t, "read",
            IF ConcKey \notin DOMAIN cache
            THEN [threads[t] EXCEPT !.pc = "done", !.outcome = "KeyError"]
            ELSE [threads[t] EXCEPT !.pc = "fresh",
                      !.response = cache[ConcKey].rid,
                      !.expiry = cache[ConcKey].expiry])
    /\ CacheSame
    /\ CacheConcFrame

\* if now < expiry: set x-cache to HIT and return cached_response
CFresh(t) ==
    /\ Step(t, "fresh",
            IF threads[t].now < threads[t].expiry
            THEN [threads[t] EXCEPT !.pc = "done", !.outcome = "hit"]
            ELSE [threads[t] EXCEPT !.pc = "evict", !.response = NoRef])
    /\ CacheSame
    /\ CacheConcFrame

\* del self.cache[cache_key]: KeyError if the key is no longer there
CEvict(t) ==
    /\ IF ConcKey \notin DOMAIN cache
       THEN /\ Step(t, "evict",
                    [threads[t] EXCEPT !.pc = "done", !.outcome = "KeyError"])
            /\ CacheSame
       ELSE /\ Step(t, "evict", [threads[t] EXCEPT !.pc = "delegate"])
            /\ cache' = [k \in DOMAIN cache \ {ConcKey} |-> cache[k]]
            /\ stored_at' = [k \in DOMAIN cache \ {ConcKey} |-> stored_at[k]]
    /\ CacheConcFrame

\* response = self._handler.handle(request): GET /users is answered 200
CDelegate(t) ==
    /\ Step(t, "delegate", [threads[t] EXCEPT !.pc = "store", !.response = RidOf(t)])
    /\ CacheSame
    /\ CacheConcFrame

\* if response.is_success(): self.cache[cache_key] = (response, expiry);
\* return response
CStore(t) ==
    /\ Step(t, "store", [threads[t] EXCEPT !.pc = "done", !.outcome = "miss"])
    /\ cache' = [k \in DOMAIN cache \cup {ConcKey} |->
                    IF k = ConcKey
                    THEN [rid |-> threads[t].response,
                          expiry |-> threads[t].now + TTL]
                    ELSE cache[k]]
    /\ stored_at' = [k \in DOMAIN cache \cup {ConcKey} |->
                        IF k = ConcKey THEN clock ELSE stored_at[k]]
    /\ CacheConcFrame

NextCacheConc ==
    \/ TickBetween
    \/ \E t \in Threads : CBegin(t)
    \/ \E t \in Threads : CMember(t)
    \/ \E t \in Threads : CRead(t)
    \/ \E t \in Threads : CFresh(t)
    \/ \E t \in Threads : CEvict(t)
    \/ \E t \in Threads : CDelegate(t)
    \/ \E t \in Threads : CStore(t)

SpecCacheConc == InitCacheConc /\ [][NextCacheConc]_vars

\* C18: no concurrent GET of the key ends in an error, every finished call
\* holds a response, and the entry the table holds for the key is the
\* response of one of the delegations.
C18_NoCorruption ==
    /\ \A t \in Threads :
         threads[t].pc = "done" =>
            (threads[t].outcome \in {"hit", "miss"} /\ threads[t].response # NoRef)
    /\ ConcKey \in DOMAIN cache =>
         \E t \in Threads :
            threads[t].outcome = "miss" /\ cache[ConcKey].rid = RidOf(t)


---------------------------------------------------------------------------
(* The stock CachingProxy in front of ExternalStockAPI.  The proxy's clock *)
(* counts half seconds, so that the 1.5 s the real service takes is a      *)
(* whole number; prices are in cents.                                      *)

MaxProxyTime == 16
MaxProxyCalls == 3

\* seconds as ticks of the proxy's clock
Seconds(s) == 2 * s

\* secure_service = CachingProxy(real_api, cache_ttl_seconds=5)
CacheTtlSeconds == 5

\* time.sleep(1.5) in ExternalStockAPI.get_stock_price: three half seconds
NetworkLatency == 3

Tickers == {"AAPL", "TSLA"}

\* mock_prices.get(ticker, 0.0)
MockPrice(ticker) ==
    CASE ticker = "AAPL" -> 15025
      [] ticker = "GOOGL" -> 280050
      [] ticker = "MSFT" -> 31010
      [] ticker = "TSLA" -> 72000
      [] OTHER -> 0

StockData(ticker, price, timestamp) ==
    [ticker |-> ticker, price |-> price, timestamp |-> timestamp]

\* ExternalStockAPI.get_stock_price called at time now: the data is stamped
\* with the time the call returns
ExternalGetStockPrice(ticker, now) ==
    StockData(ticker, MockPrice(ticker), now + NetworkLatency)

\* the proxy finds a fresh item for the ticker at current_time
ProxyFresh(p, ticker, current_time) ==
    /\ ticker \in DOMAIN p.cache
    /\ current_time - p.cache[ticker].timestamp < Seconds(CacheTtlSeconds)

\* CachingProxy.get_stock_price(ticker) on the proxy p: the proxy after the
\* call, the call and what it returned appended to the history
ProxyGetStockPrice(p, ticker) ==
    LET current_time == p.time
        fresh_data == ExternalGetStockPrice(ticker, current_time)
    IN  IF ProxyFresh(p, ticker, current_time)
        THEN [p EXCEPT !.history =
                 Append(@, [at |-> current_time, ticker |-> ticker,
                            outcome |-> "hit", data |-> p.cache[ticker]])]
        ELSE [time |-> fresh_data.timestamp,
              cache |-> [k \in DOMAIN p.cache \cup {ticker} |->
                            IF k = ticker THEN fresh_data ELSE p.cache[k]],
              delegations |-> p.delegations + 1,
              history |-> Append(p.history,
                            [at |-> current_time, ticker |-> ticker,
                             outcome |-> "miss", data |-> fresh_data])]

\* client_app(secure_service, ticker)
ClientApp ==
    \E ticker \in Tickers :
        /\ Len(proxy.history) < MaxProxyCalls
        /\ ProxyGetStockPrice(proxy, ticker).time <= MaxProxyTime
        /\ proxy' = ProxyGetStockPrice(proxy, ticker)
        /\ UNCHANGED <<chain, config, probe, threads, facade, db>>

\* time.sleep between two requests, half a second at a time
ProxySleep ==
    /\ proxy.time < MaxProxyTime
    /\ proxy' = [proxy EXCEPT !.time = @ + 1]
    /\ UNCHANGED <<chain, config, probe, threads, facade, db>>

NextProxy == ClientApp \/ ProxySleep

SpecProxy == Init /\ [][NextProxy]_vars

\* C19: with TTL 5 s and an empty cache, requests for AAPL at t=0, t=2 and
\* t=6 are a miss that delegates and stores, a hit without delegation, and
\* a miss again that delegates once more and stores a newer timestamp.
C19_StockScenario ==
    LET h == proxy.history IN
    ( /\ Len(h) = 3
      /\ \A i \in 1..3 : h[i].ticker = "AAPL"
      /\ h[1].at = Seconds(0)
      /\ h[2].at = Seconds(2)
      /\ h[3].at = Seconds(6) )
    => /\ h[1].outcome = "miss"
       /\ h[2].outcome = "hit"
       /\ h[2].data = h[1].data
       /\ h[3].outcome = "miss"
       /\ proxy.delegations = 2
       /\ proxy.cache["AAPL"] = h[3].data
       /\ h[3].data.timestamp > h[1].data.timestamp


---------------------------------------------------------------------------
(* A CachingMiddleware around a handler whose answers change from call to  *)
(* call: what a lookup does with an expired entry.                         *)

EvictChain == <<"Caching", "Stub">>

CallEvict ==
    \E rq \in MetricsRequests, d \in 0..MaxDelay : Call(EvictChain, rq, d)

NextEvict == Tick \/ SetStub \/ CallEvict

SpecEvict == Init /\ [][NextEvict]_vars

\* the lookup of this step finds an entry for its key that is no longer
\* valid (valid iff the time of the lookup < expiry)
FindsExpired ==
    /\ CallStep
    /\ req'.method = "GET"
    /\ GenerateCacheKey(req') \in DOMAIN cache
    /\ ~(EnteredAt(trace', "Caching") < cache[GenerateCacheKey(req')].expiry)

\* C20: a lookup that finds an expired entry for its key hands the request
\* to the wrapped handler once with the entry already removed (the key is
\* absent when the handler raises), then does what a miss does: a 2xx
\* response is returned marked MISS and stored until lookup time + ttl, and
\* after a failure the key is absent; the entries of other keys stay as
\* they were.
C20_LazyEviction ==
    [][FindsExpired =>
        LET key == GenerateCacheKey(req')
            now == EnteredAt(trace', "Caching")
        IN /\ Entered(trace', "Stub") = 1
           /\ DOMAIN cache' \subseteq DOMAIN cache
           /\ \A k \in DOMAIN cache \ {key} :
                /\ k \in DOMAIN cache'
                /\ cache'[k] = cache[k]
                /\ heap'[k] = heap[k]
           /\ exc' # "" => key \notin DOMAIN cache'
           /\ (exc' = "" /\ ~IsSuccess(heap'[ret'])) =>
                /\ key \notin DOMAIN cache'
                /\ "x-cache" \notin DOMAIN heap'[ret'].headers
           /\ (exc' = "" /\ IsSuccess(heap'[ret'])) =>
                /\ key \in DOMAIN cache'
                /\ cache'[key] = [rid |-> ret', expiry |-> now + TTL]
                /\ heap'[ret'].headers["x-cache"] = <<"MISS">>
                /\ heap'[ret'].status_code = stub.status]_vars

\* C20 witness: the last GET found an expired entry for its key and was
\* answered with a failure; its key is gone from the table while the entry
\* of another key is still there
C20_Witness ==
    /\ req.method = "GET"
    /\ exc = ""
    /\ ClassOf(req) \in DOMAIN memo
    /\ memo[ClassOf(req)].key = GenerateCacheKey(req)
    /\ memo[ClassOf(req)].evicted
    /\ ~(memo[ClassOf(req)].status \in 200..299)
    /\ GenerateCacheKey(req) \notin DOMAIN cache
    /\ DOMAIN cache # {}


---------------------------------------------------------------------------
(* PaymentProcessingFacade over its five subsystems.  Amounts are whole    *)
(* currency units and risk scores are hundredths.  The subsystems are      *)
(* handed to the constructor; a call is given the set of subsystem         *)
(* methods that raise during it, besides what the code itself raises.      *)

\* if payment_request.amount > 5000
FraudThreshold == 5000

\* if amount > 10000
GatewayLimit == 10000

\* risk_score = 0.15, risk_score = 0.85, risk_score < 0.5
LowRisk == 15
HighRisk == 85
ReviewFrom == 50

Amounts == {99, FraudThreshold, FraudThreshold + 1, GatewayLimit + 1}

\* payment_request.items: a list, or None, which has no len()
ItemLists == {<<"PROD-001">>, None}

\* the subsystem methods called in the try blocks
FaultableInTry ==
    {"reserve_inventory", "charge", "save_payment_record",
     "update_order_status", "send_payment_confirmation",
     "log_payment_success", "refund"}

\* the subsystem methods called in the except blocks
FaultableInExcept ==
    {"release_inventory", "send_payment_failure_notification",
     "log_payment_failure"}

\* a block ends at the first method that raises, so one faulty method for
\* each block is every case
FaultSets ==
    {f \in SUBSET (FaultableInTry \cup FaultableInExcept) :
        /\ Cardinality(f \cap FaultableInTry) <= 1
        /\ Cardinality(f \cap FaultableInExcept) <= 1}

\* FraudDetectionService.analyze_transaction
AnalyzeTransaction(payment_request) ==
    LET risk_score == IF payment_request.amount > FraudThreshold
                      THEN HighRisk ELSE LowRisk
    IN [risk_score |-> risk_score,
        recommendation |-> IF risk_score < ReviewFrom THEN "approve" ELSE "review"]

\* PaymentGateway.charge
Charge(amount) ==
    IF amount > GatewayLimit
    THEN [success |-> FALSE, transaction_id |-> "",
          error_message |-> "Transaction amount exceeds limit"]
    ELSE [success |-> TRUE, transaction_id |-> "txn", error_message |-> ""]

\* a method of a subsystem is called; it raises what is given, or nothing
Invoke(r, op, raises) ==
    [r EXCEPT !.calls = Append(@, [op |-> op, active |-> r.in_transaction,
                                   raised |-> raises # ""]),
              !.exc = raises]

\* DatabaseTransaction.begin
Begin(r) == [Invoke(r, "begin", "") EXCEPT !.in_transaction = TRUE]

\* DatabaseTransaction.commit and DatabaseTransaction.rollback
EndTransaction(r, op) ==
    IF ~r.in_transaction
    THEN Invoke(r, op, "No active transaction")
    ELSE [Invoke(r, op, "") EXCEPT !.in_transaction = FALSE]

\* one statement of a try block or of an except block
Exec(r, op, rq, faults) ==
    CASE op \in {"commit", "rollback"} -> EndTransaction(r, op)
      [] op \in {"reserve_inventory", "release_inventory"} ->
            Invoke(r, op, IF rq.items = None THEN "TypeError"
                          ELSE IF op \in faults THEN "Exception" ELSE "")
      [] op = "charge" ->
            Invoke(r, op, IF op \in faults THEN "Exception"
                          ELSE IF ~Charge(rq.amount).success
                          THEN Charge(rq.amount).error_message ELSE "")
      [] OTHER -> Invoke(r, op, IF op \in faults THEN "Exception" ELSE "")

\* the statements of a block from the k-th on, up to the first that raises
RECURSIVE Block(_, _, _, _, _)
Block(r, ops, k, rq, faults) ==
    IF k > Len(ops) \/ r.exc # "" THEN r
    ELSE Block(Exec(r, ops[k], rq, faults), ops, k + 1, rq, faults)

PaymentSteps ==
    <<"reserve_inventory", "charge", "save_payment_record",
      "update_order_status", "commit", "send_payment_confirmation",
      "log_payment_success">>

PaymentFailureSteps ==
    <<"rollback", "release_inventory", "send_payment_failure_notification",
      "log_payment_failure">>

RefundSteps == <<"refund", "update_order_status", "release_inventory", "commit">>

RefundFailureSteps == <<"rollback">>

PaymentResult(status, error_message) ==
    [status |-> status, error_message |-> error_message]

\* the call begins with the database as the last call left it; faults are
\* the subsystem methods that raise during it
Entry(method, rq, faults) ==
    [in_transaction |-> facade.in_transaction, method |-> method, given |-> rq,
     faults |-> faults, calls |-> <<>>, result |-> <<>>, raised |-> "", exc |-> ""]

\* the call ends: what it returned, or what it raised
Leave(r, result) ==
    [in_transaction |-> r.in_transaction, method |-> r.method, given |-> r.given,
     faults |-> r.faults, calls |-> r.calls,
     result |-> IF r.exc = "" THEN result ELSE <<>>,
     raised |-> r.exc]

\* a try block with its except Exception block: the state at the end, and
\* what the try block raised
TryExcept(r, try, except, rq, faults) ==
    LET a == Block(r, try, 1, rq, faults)
    IN  IF a.exc = "" THEN [end |-> a, caught |-> ""]
        ELSE [end |-> Block([a EXCEPT !.exc = ""], except, 1, rq, faults),
              caught |-> a.exc]

\* a facade without the fraud guard: C21_FraudGuard does not hold of it
FraudNeverSuspected(fraud_analysis) == FALSE

\* if fraud_analysis['recommendation'] != 'approve'
FraudSuspected(fraud_analysis) == fraud_analysis.recommendation # "approve"

\* PaymentProcessingFacade.process_payment
ProcessPaymentOf(rq, faults) ==
    LET r0 == Invoke(Entry("process_payment", rq, faults), "log_payment_attempt", "")
        r1 == Invoke(r0, "analyze_transaction", "")
        fraud_analysis == AnalyzeTransaction(rq)
        t == TryExcept(Begin(r1), PaymentSteps, PaymentFailureSteps, rq, faults)
    IN  IF FraudSuspected(fraud_analysis)
        THEN Leave(Invoke(r1, "log_fraud_alert", ""),
                   PaymentResult("FRAUD_SUSPECTED", "Transaction flagged for review"))
        ELSE IF t.caught = ""
        THEN Leave(t.end, PaymentResult("APPROVED", ""))
        ELSE Leave(t.end, PaymentResult("FAILED", t.caught))

\* PaymentProcessingFacade.refund_payment
RefundPaymentOf(rq, faults) ==
    LET t == TryExcept(Begin(Entry("refund_payment", rq, faults)), RefundSteps,
                       RefundFailureSteps, rq, faults)
    IN  Leave(t.end, t.caught = "")

PaymentRequest(amount, items) == [amount |-> amount, items |-> items]

ProcessPayment ==
    \E amount \in Amounts, items \in ItemLists, faults \in FaultSets :
        /\ facade' = ProcessPaymentOf(PaymentRequest(amount, items), faults)
        /\ UNCHANGED <<chain, config, probe, threads, proxy, db>>

RefundPayment ==
    \E amount \in Amounts, items \in ItemLists, faults \in FaultSets :
        /\ facade' = RefundPaymentOf(PaymentRequest(amount, items), faults)
        /\ UNCHANGED <<chain, config, probe, threads, proxy, db>>

NextFacade == ProcessPayment \/ RefundPayment

SpecFacade == Init /\ [][NextFacade]_vars

\* the methods the last call invoked
Ops == {facade.calls[k].op : k \in 1..Len(facade.calls)}

\* C21: whenever the fraud analysis recommends anything other than approve
\* (amount above 5000), process_payment returns FRAUD_SUSPECTED and has
\* begun no transaction, reserved no inventory, charged nothing and sent
\* no email.
C21_FraudGuard ==
    (/\ facade.method = "process_payment"
     /\ AnalyzeTransaction(facade.given).recommendation # "approve")
    => /\ facade.given.amount > FraudThreshold
       /\ facade.raised = ""
       /\ facade.result.status = "FRAUD_SUSPECTED"
       /\ Ops = {"log_payment_attempt", "analyze_transaction", "log_fraud_alert"}

\* C21 witness: a payment of more than 5000 was answered FRAUD_SUSPECTED
C21_Witness ==
    /\ facade.method = "process_payment"
    /\ facade.given.amount > FraudThreshold
    /\ facade.raised = ""
    /\ facade.result.status = "FRAUD_SUSPECTED"


\* how often the last call invoked one of the methods ops
Invocations(ops) ==
    Cardinality({k \in 1..Len(facade.calls) : facade.calls[k].op \in ops})

\* C30: in every call of process_payment and refund_payment each begin is
\* followed by exactly one commit or exactly one rollback before the
\* return, commit and rollback are invoked only with a transaction active,
\* in_transaction is false at the return, and the method returns a result
\* instead of raising, whichever step fails after begin.
C30_TransactionDiscipline ==
    facade.method # "" =>
        /\ Invocations({"commit", "rollback"}) = Invocations({"begin"})
        /\ \A k \in 1..Len(facade.calls) :
             facade.calls[k].op \in {"commit", "rollback"} => facade.calls[k].active
        /\ ~facade.in_transaction
        /\ facade.raised = ""


\* C31: for a payment whose amount is above the gateway limit (amount >
\* 10000), process_payment reaches the gateway, which declines the charge,
\* and the facade rolls back, releases the inventory, sends the failure
\* notification and returns a result with status FAILED.
C31_OverGatewayLimit ==
    (/\ facade.method = "process_payment"
     /\ facade.given.amount > GatewayLimit
     /\ facade.given.items # None
     /\ facade.faults = {})
    => /\ {"charge", "rollback", "release_inventory",
           "send_payment_failure_notification"} \subseteq Ops
       /\ facade.raised = ""
       /\ facade.result.status = "FAILED"


---------------------------------------------------------------------------
(* The demonstration run: TEST 1 to TEST 4 on the full chain, in order.    *)
(* The rate limit is MaxRequests and the loop of TEST 4 makes one request  *)
(* more than the limit, as range(6) does for max_requests=5.               *)

\* request3 and request4
DemoUsers ==
    Request("GET", "/users", Headers(BearerSecret, Gzip, ExampleOrigin), None,
            <<>>, EmptyMap, "req")

\* request5
DemoUnauthenticated ==
    Request("GET", "/users", Headers(None, Gzip, None), None, <<>>, EmptyMap, "req")

\* request_rl
DemoProducts ==
    Request("GET", "/products", Headers(BearerSecret, Gzip, None), None, <<>>,
            EmptyMap, "req")

\* the calls made before the loop of TEST 4
DemoBefore == <<DemoUsers, DemoUsers, DemoUnauthenticated>>

DemoScript == DemoBefore \o [i \in 1..(MaxRequests + 1) |-> DemoProducts]

\* if response_rl.status_code == 429: break
LoopBroken ==
    /\ ncalls > Len(DemoBefore)
    /\ ret # NoRef
    /\ heap[ret].status_code = 429

\* the next call of the script
DemoCall ==
    /\ ncalls < Len(DemoScript)
    /\ ~LoopBroken
    /\ Handled(FullChain, DemoScript[ncalls + 1], 0)

NextDemo == Tick \/ DemoCall

SpecDemo == Init /\ [][NextDemo]_vars

\* C22: in the demonstration run inside one window, the requests of TEST 4
\* up to the limit get a response other than 429, and the rate limit
\* triggers only on the request after them.
C22_DemoRateLimit ==
    [][(/\ CallStep
        /\ ncalls >= Len(DemoBefore)
        /\ clock' < Window)
       => (heap'[ret'].status_code = 429 <=> ncalls' = Len(DemoScript))]_vars


---------------------------------------------------------------------------
(* CachingMiddleware around APIHandler: reads and writes of /users.        *)

WriteChain == <<"Caching", "API">>

WriteRequests ==
    {Request("GET", p, EmptyMap, None, <<>>, EmptyMap, "req") :
        p \in {"/users", "/products"}}
    \cup
    {Request("POST", "/users", EmptyMap, CarolJson, <<>>, EmptyMap, "req")}

CallWrite == \E rq \in WriteRequests : Call(WriteChain, rq, 0)

NextWrite == Tick \/ CallWrite

SpecWrite == Init /\ [][NextWrite]_vars

\* C27: the GET /users that follows a POST /users answered 201 returns a
\* body that contains the user the POST created, also when a GET /users
\* response was cached before the POST and has not expired.
C27_InvalidationOnWrite ==
    [][(/\ CallStep
        /\ req.method = "POST"
        /\ ret # NoRef
        /\ heap[ret].status_code = 201
        /\ req'.method = "GET"
        /\ req'.path = "/users")
       => (/\ exc' = ""
           /\ \E k \in 1..Len(heap'[ret'].body.doc) :
                heap'[ret'].body.doc[k] = users[Len(users)].name)]_vars

---------------------------------------------------------------------------
(* CachingMiddleware around CompressionMiddleware, called by clients that  *)
(* declare gzip and by clients that do not.                                *)

EncodingRequests ==
    {Request("GET", p, Headers(None, e, None), None, <<>>, EmptyMap, "req") :
        p \in {"/users", "/products"}, e \in {None, Gzip}}

CallEncoding == \E rq \in EncodingRequests : Call(CacheChain, rq, 0)

NextEncoding == Tick \/ CallEncoding

SpecEncoding == Init /\ [][NextEncoding]_vars

\* C28: a response delivered to a caller carries content-encoding: gzip
\* only if that caller's request declared gzip in accept-encoding.
C28_EncodingOnlyIfDeclared ==
    [][(/\ CallStep
        /\ exc' = ""
        /\ "content-encoding" \in DOMAIN heap'[ret'].headers
        /\ heap'[ret'].headers["content-encoding"] = Gzip)
       => DeclaresGzip(GetHeader(given', "accept-encoding", None))]_vars

---------------------------------------------------------------------------
(* CORSMiddleware, constructed with origins other than "*", around         *)
(* CachingMiddleware, called by clients of several origins.                *)

OriginChain == <<"CORS", "Caching", "API">>

OtherOrigin == <<"https://other.example">>

InitOrigins ==
    /\ Fresh
    /\ stub = NoStub
    /\ pair = NoPair
    /\ probe = NoProbe
    /\ threads = NoThreads
    /\ proxy = NoProxy
    /\ facade = NoFacade
    /\ db = NoDB
    /\ \E allowed_origins \in (SUBSET {ExampleOrigin, OtherOrigin}) \ {{}} :
         config = [args |-> [allowed_origins |-> allowed_origins], units |-> <<>>]

OriginRequests ==
    {Request("GET", "/users", Headers(None, None, o), None, <<>>, EmptyMap, "req") :
        o \in {None, ExampleOrigin, OtherOrigin}}

CallOrigins == \E rq \in OriginRequests : Call(OriginChain, rq, 0)

NextOrigins == Tick \/ CallOrigins

SpecOrigins == InitOrigins /\ [][NextOrigins]_vars

\* C29: a response delivered to a caller carries access-control-allow-origin
\* only if the origin of that caller's request is in allowed_origins, and
\* then the header's value is that origin.
C29_OriginOnlyIfAllowed ==
    [][(/\ CallStep
        /\ exc' = ""
        /\ "access-control-allow-origin" \in DOMAIN heap'[ret'].headers)
       => (/\ GetHeader(given', "origin", None) \in config.args.allowed_origins
           /\ heap'[ret'].headers["access-control-allow-origin"]
                = GetHeader(given', "origin", None))]_vars

-----------------------------------------------------------------------------
\* DBSingleton (db_singleton.py): the process-wide holder of the write and
\* the read engine.  Coroutines run on one event loop, so a coroutine runs
\* alone from one await to the next: configure_*_engine is two steps, the
\* test of the client up to the await of the factory, and the assignment of
\* the awaited engine; close_connection has no await and is one step.

Engines == {"write", "read"}

\* the field of db_singleton that holds the engine of a kind
ClientOf(kind) == IF kind = "write" THEN "write_client" ELSE "read_client"

\* a coroutine that has not called configure_*_engine yet
IdleCoroutine == [pc |-> "idle", kind |-> ""]

InitSingleton ==
    /\ Fresh
    /\ stub = NoStub
    /\ pair = NoPair
    /\ config = NoConfig
    /\ probe = NoProbe
    /\ threads = [t \in Threads |-> IdleCoroutine]
    /\ proxy = NoProxy
    /\ facade = NoFacade
    /\ db = NoDB

SingletonFrame == UNCHANGED <<chain, config, probe, proxy, facade>>

\* DBFactory.create_write_engine / create_read_engine, awaited: the caller is
\* suspended until the engine exists; the engine returned is a new one
DBFactoryCreateEngine(d, kind) == Len(d.created) + 1

\* `if self.write_client is None:` and the call of the factory, up to the
\* await: a set client ends the call, an unset one suspends the coroutine
ConfigureBegin(t, kind) ==
    /\ threads[t].pc = "idle"
    /\ threads' = [threads EXCEPT ![t] =
                     IF db[ClientOf(kind)] = NoEngine
                       THEN [pc |-> "awaiting", kind |-> kind]
                       ELSE [pc |-> "done", kind |-> kind]]
    /\ UNCHANGED db
    /\ SingletonFrame

\* the factory returns and `self.write_client = ...` stores its engine,
\* whatever the field holds by now; an engine the field held is dropped
\* without a close()
ConfigureResume(t) ==
    /\ threads[t].pc = "awaiting"
    /\ LET kind == threads[t].kind
           held == db[ClientOf(kind)]
           engine == DBFactoryCreateEngine(db, kind)
       IN  db' = [db EXCEPT ![ClientOf(kind)] = engine,
                            !.created = Append(@, kind),
                            !.leaked = IF held = NoEngine THEN @
                                       ELSE @ \cup {held}]
    /\ threads' = [threads EXCEPT ![t].pc = "done"]
    /\ SingletonFrame

\* close_connection: each client that is set is closed and cleared
CloseConnection ==
    /\ db' = [db EXCEPT !.write_client = NoEngine,
                        !.read_client = NoEngine,
                        !.closed = @ \cup ({db.write_client, db.read_client}
                                            \ {NoEngine})]
    /\ UNCHANGED threads
    /\ SingletonFrame

NextSingleton ==
    \/ \E t \in Threads, kind \in Engines : ConfigureBegin(t, kind)
    \/ \E t \in Threads : ConfigureResume(t)
    \/ CloseConnection

SpecSingleton == InitSingleton /\ [][NextSingleton]_vars

\* the engines of a kind that were created and not closed
OpenEngines(kind) ==
    {e \in 1..Len(db.created) : db.created[e] = kind /\ e \notin db.closed}

\* a step that changes a set client clears it and has closed its engine
KeepsClient(field) ==
    (db[field] # NoEngine /\ db'[field] # db[field])
    => (db'[field] = NoEngine /\ db[field] \in db'.closed)

\* C32: DBSingleton is initialize-once: a client that is set is replaced by
\* no configure_*_engine call until close_connection clears it, and under
\* every interleaving of concurrent configure_write_engine calls at most one
\* write engine is created and held open, and no engine is dropped from its
\* field without having been closed.
C32_InitializeOnce ==
    /\ [](Cardinality(OpenEngines("write")) <= 1 /\ db.leaked = {})
    /\ [][KeepsClient("write_client") /\ KeepsClient("read_client")]_vars

=============================================================================
